---------------------------- MODULE Spec2Model ----------------------------
(***************************************************************************)
(* A model of the homework submission and grading platform:                *)
(*   routes/utils.py    token_required                                     *)
(*   routes/auth.py     generate_token, login, refresh_token               *)
(*   routes/student.py  join_class, submit_assignment, get_grade_trend ... *)
(*   routes/teacher.py  create_class, delete_class, grade_submission ...   *)
(*   ai_grading.py      TongyiQianwenAPI                                   *)
(*                                                                         *)
(* Text is a sequence of characters.  An ASCII character is the one-letter *)
(* string of itself; a CJK character of the source is written as its       *)
(* pinyin syllable ("ping","fen" for the two characters of the score       *)
(* token).  A message the program only stores and never inspects is a      *)
(* one-element sequence holding the whole message.                         *)
(* A nullable value is None (the empty sequence) or Some(v).               *)
(***************************************************************************)
EXTENDS Integers, Sequences, FiniteSets, TLC

VARIABLES
    text,         \* parse_grading_result: the oracle's answer text
    parsed,       \* parse_grading_result: what the call produced
    clock,        \* the server's time, in days
    users,        \* the users table: rows [id, username, role]
    jwtLib,       \* which reading of "exp" the installed JWT library takes
    authResp,     \* the answer to the last authentication request
    classes,      \* table classes: rows [id, code, teacher_id]
    student_classes, \* table student_classes: rows [id, student_id, class_id]
    assignments,  \* table assignments: rows [id, title, teacher_id, class_id]
    submissions,  \* table submissions
    nextId,       \* the AUTO_INCREMENT counter of each table
    inflight,     \* the submit_assignment requests between SELECT and write
    resp          \* the answer to the last request to a route

parseVars == <<text, parsed>>
authVars == <<clock, users, jwtLib, authResp>>

tables == <<classes, student_classes, assignments, submissions, nextId>>
storeVars == <<classes, student_classes, assignments, submissions, nextId, inflight, resp>>

vars == <<text, parsed, clock, users, jwtLib, authResp,
          classes, student_classes, assignments, submissions, nextId, inflight, resp>>

None == <<>>
Some(v) == <<v>>

-----------------------------------------------------------------------------
(* Python str operations on character sequences *)

Whitespace == {" ", "\t", "\r", "\n"}

Digits == {"0", "1", "2", "3", "4", "5", "6", "7", "8", "9"}

DigitVal(c) ==
    CASE c = "0" -> 0 [] c = "1" -> 1 [] c = "2" -> 2 [] c = "3" -> 3
      [] c = "4" -> 4 [] c = "5" -> 5 [] c = "6" -> 6 [] c = "7" -> 7
      [] c = "8" -> 8 [] c = "9" -> 9

\* sub in s
Contains(s, sub) ==
    \E i \in 1..(Len(s) - Len(sub) + 1) : SubSeq(s, i, i + Len(sub) - 1) = sub

\* s.startswith(prefix)
StartsWith(s, prefix) ==
    /\ Len(prefix) <= Len(s)
    /\ SubSeq(s, 1, Len(prefix)) = prefix

\* s.find(c) for a single character, 1-based; 0 when absent
Find(s, c) ==
    IF \E i \in 1..Len(s) : s[i] = c
    THEN CHOOSE i \in 1..Len(s) : s[i] = c /\ \A j \in 1..(i - 1) : s[j] # c
    ELSE 0

\* s.split(sep) for a single-character separator: never an empty list
RECURSIVE Split(_, _)
Split(s, sep) ==
    LET i == Find(s, sep)
    IN  IF i = 0 THEN <<s>>
        ELSE <<SubSeq(s, 1, i - 1)>> \o Split(SubSeq(s, i + 1, Len(s)), sep)

RECURSIVE LStrip(_)
LStrip(s) ==
    IF s # <<>> /\ Head(s) \in Whitespace THEN LStrip(Tail(s)) ELSE s

RECURSIVE RStrip(_)
RStrip(s) ==
    IF s # <<>> /\ s[Len(s)] \in Whitespace
    THEN RStrip(SubSeq(s, 1, Len(s) - 1)) ELSE s

\* s.strip()
Strip(s) == LStrip(RStrip(s))

RECURSIVE DigitsValue(_)
DigitsValue(s) ==
    IF s = <<>> THEN 0
    ELSE 10 * DigitsValue(SubSeq(s, 1, Len(s) - 1)) + DigitVal(s[Len(s)])

\* int(s): surrounding whitespace is ignored, one optional sign, then digits
PyInt(s) ==
    LET t == Strip(s)
        signed == t # <<>> /\ t[1] \in {"-", "+"}
        d == IF signed THEN Tail(t) ELSE t
    IN  IF d # <<>> /\ \A i \in 1..Len(d) : d[i] \in Digits
        THEN [ok |-> TRUE,
              val |-> IF signed /\ t[1] = "-" THEN 0 - DigitsValue(d)
                      ELSE DigitsValue(d)]
        ELSE [ok |-> FALSE, val |-> 0]

-----------------------------------------------------------------------------
(* Outcome of a Python block: it returns a value or raises an exception *)

Return(v) == [raised |-> FALSE, value |-> v, exc |-> "none"]
Raise(e) == [raised |-> TRUE, value |-> <<>>, exc |-> e]

-----------------------------------------------------------------------------
(* ai_grading.py: TongyiQianwenAPI.parse_grading_result *)

ScoreToken == <<"ping", "fen">>
FeedbackToken == <<"ping", "jia">>

MsgOutOfRange == <<"AI-fan-hui-de-fen-shu-chao-chu-fan-wei">>
MsgUnparsable == <<"wu-fa-jie-xi-AI-pi-gai-jie-guo">>

\* the range test without its lower end
ScoreRangeOk_NoLowerEnd(score) == score <= 100

ScoreRangeOk(score) == 0 <= score /\ score <= 100

\* the segment of a line that the parser reads: line.split(':')[1]
ColonField(line) ==
    LET parts == Split(line, ":")
    IN  IF Len(parts) < 2 THEN Raise("IndexError") ELSE Return(parts[2])

\* [line for line in text.split('\n') if token in line][0]
FirstLineWith(txt, token) ==
    LET found == SelectSeq(Split(txt, "\n"), LAMBDA l : Contains(l, token))
    IN  IF found = <<>> THEN Raise("IndexError") ELSE Return(found[1])

\* the body of the try block
ParseBody(txt) ==
    LET score_line == FirstLineWith(txt, ScoreToken)
    IN  IF score_line.raised THEN score_line ELSE
        LET score_field == ColonField(score_line.value)
        IN  IF score_field.raised THEN score_field ELSE
            LET score == PyInt(Strip(score_field.value))
            IN  IF ~score.ok THEN Raise("ValueError") ELSE
                LET feedback_line == FirstLineWith(txt, FeedbackToken)
                IN  IF feedback_line.raised THEN feedback_line ELSE
                    LET feedback_field == ColonField(feedback_line.value)
                    IN  IF feedback_field.raised THEN feedback_field ELSE
                        IF ScoreRangeOk(score.val)
                        THEN Return(<<Some(score.val), Strip(feedback_field.value)>>)
                        ELSE Return(<<None, MsgOutOfRange>>)

\* except Exception: return None, <message>
CatchAll(r, onError) == IF r.raised THEN Return(onError) ELSE r

parse_grading_result(txt) == CatchAll(ParseBody(txt), <<None, MsgUnparsable>>)

-----------------------------------------------------------------------------
(* Oracle answers the parser is run on *)

MaxLines == 2
MaxFields == 3

ScoreHead == <<"1", ".", " ">> \o ScoreToken \o <<"(", "0", "-", "1", "0", "0", "fen", ")">>
FeedbackHead == <<"2", ".", " ">> \o FeedbackToken
PlainHead == <<"z", "h", "u">>

LineHeads == {ScoreHead, FeedbackHead, PlainHead}

FieldTexts ==
    { <<" ", "8", "7">>, <<"1", "0", "1">>, <<"-", "1">>, <<" ", "o", "k", " ">>, <<>> }

\* every sequence over S of length exactly n
RECURSIVE SeqsOfLen(_, _)
SeqsOfLen(S, n) ==
    IF n = 0 THEN {<<>>}
    ELSE {<<x>> \o t : x \in S, t \in SeqsOfLen(S, n - 1)}

\* head, then each field behind a colon
RECURSIVE AfterColons(_)
AfterColons(fields) ==
    IF fields = <<>> THEN <<>>
    ELSE <<":">> \o Head(fields) \o AfterColons(Tail(fields))

\* the lines with exactly n colons
LinesWith(n) == {h \o AfterColons(f) : h \in LineHeads, f \in SeqsOfLen(FieldTexts, n)}

\* the lines by the number of their colons
LinesByColons == [n \in 0..MaxFields |-> LinesWith(n)]

\* occurrences of the character c in s
Count(s, c) == Cardinality({i \in 1..Len(s) : s[i] = c})

LineCount(txt) == IF txt = <<>> THEN 0 ELSE 1 + Count(txt, "\n")

-----------------------------------------------------------------------------
(* routes/student.py: uploads and extract_file_content *)

\* ALLOWED_EXTENSIONS
AllowedExtensions == {"pdf", "doc", "docx"}

AsciiChars ==
    Digits \cup {"a", "b", "c", "d", "e", "f", "g", "h", "i", "j", "k", "l", "m",
                 "n", "o", "p", "q", "r", "s", "t", "u", "v", "w", "x", "y", "z",
                 "_", "-"}

NoFile == [present |-> FALSE, stem |-> <<>>, ext |-> "", body |-> "none", words |-> <<>>]

\* An uploaded file <stem>.<ext>, and what reading it leads to:
\*   "text"    the document is read and holds `words`
\*   "broken"  the reading library raises on it
\*   "nolib"   no library able to read the format is installed
\*   "crash"   the extraction fails outside the per-format handlers
Upload(stem, ext, body, words) ==
    [present |-> TRUE, stem |-> stem, ext |-> ext, body |-> body, words |-> words]

\* file.filename
Filename(file) == IF file.ext = "" THEN file.stem ELSE file.stem \o <<".", file.ext>>

\* '.' in filename and filename.rsplit('.', 1)[1].lower() in ALLOWED_EXTENSIONS
allowed_file(file) ==
    Find(Filename(file), ".") # 0 /\ file.ext \in AllowedExtensions

\* werkzeug's secure_filename: the characters outside ASCII are dropped, and
\* so are the dots the name then starts with
SecureFilename(file) ==
    LET stem == SelectSeq(file.stem, LAMBDA c : c \in AsciiChars)
    IN  IF stem = <<>> THEN <<file.ext>> ELSE stem \o <<".", file.ext>>

\* os.path.splitext(file_path)[1].lower(), without the dot
StoredExt(file) ==
    IF Find(SecureFilename(file), ".") = 0 THEN "" ELSE file.ext

\* the failure texts of extract_file_content
PdfNoLibrary == <<"wu", "fa", "ti", "qu", "P", "D", "F", "nei", "rong">>
PdfFailed == <<"P", "D", "F", "ti", "qu", "shi", "bai", ":", " ", "e">>
DocxNoLibrary == <<"wu", "fa", "ti", "qu", "D", "O", "C", "X", "nei", "rong">>
DocxFailed == <<"D", "O", "C", "X", "ti", "qu", "shi", "bai", ":", " ", "e">>
DocEmpty == <<"wu", "fa", "ti", "qu", "D", "O", "C", "wen", "jian", "nei", "rong">>
DocNoLibrary == <<"wu", "fa", "ti", "qu", "D", "O", "C", "nei", "rong">>
DocFailed == <<"D", "O", "C", "ti", "qu", "shi", "bai", ":", " ", "e">>
Unsupported(ext) == <<"bu", "zhi", "chi", "de", "wen", "jian", "ge", "shi", ":", " ", ext>>
ExtractCrashed == <<"wen", "jian", "ti", "qu", "chu", "cuo", ":", " ", "e">>

\* every text extract_file_content returns in place of a document's text
FailureSentinels ==
    {PdfNoLibrary, PdfFailed, DocxNoLibrary, DocxFailed, DocEmpty, DocNoLibrary,
     DocFailed, ExtractCrashed} \cup {Unsupported(e) : e \in {"", "pdf", "doc", "docx"}}

extract_file_content(file) ==
    LET file_ext == StoredExt(file)
    IN  IF file.body = "crash" THEN ExtractCrashed
        ELSE IF file_ext = "pdf" THEN
            IF file.body = "nolib" THEN PdfNoLibrary
            ELSE IF file.body = "broken" THEN PdfFailed
            ELSE Strip(file.words)
        ELSE IF file_ext = "docx" THEN
            IF file.body = "nolib" THEN DocxNoLibrary
            ELSE IF file.body = "broken" THEN DocxFailed
            ELSE Strip(file.words)
        ELSE IF file_ext = "doc" THEN
            IF file.body = "nolib" THEN DocNoLibrary
            ELSE IF file.body = "broken" THEN DocFailed
            ELSE IF file.words = <<>> THEN DocEmpty
            ELSE Strip(file.words)
        ELSE Unsupported(file_ext)

\* the prefixes submit_assignment takes for an extraction failure
FailurePrefixes ==
    { <<"wu", "fa", "ti", "qu">>, <<"ti", "qu", "shi", "bai">>,
      <<"bu", "zhi", "chi">>, <<"wen", "jian", "ti", "qu", "chu", "cuo">> }

\* extracted.startswith(...) for one of the four prefixes
LooksLikeFailure(extracted) == \E pre \in FailurePrefixes : StartsWith(extracted, pre)

\* file_url and file_content of submit_assignment
UploadUrl(file) == <<"/uploads/", "uuid", "_">> \o SecureFilename(file)

FileUrlOf(file) ==
    IF file.present /\ Filename(file) # <<>> /\ allowed_file(file)
    THEN UploadUrl(file) ELSE <<>>

FileContentOf(file) ==
    IF file.present /\ Filename(file) # <<>> /\ allowed_file(file)
    THEN LET extracted == extract_file_content(file)
         IN  IF extracted # <<>> /\ ~LooksLikeFailure(extracted)
             THEN extracted ELSE <<>>
    ELSE <<>>

FileSeparator ==
    <<"\n", "\n", "-", "-", "-", " ", "wen", "jian", "nei", "rong", " ",
      "-", "-", "-", "\n", "\n">>

\* text and file text run together with nothing in between
CombinedContent_NoSeparator(content, file_content) ==
    Strip(content) \o Strip(file_content)

\* submission_content of submit_assignment
CombinedContent(content, file_content) ==
    LET own == IF Strip(content) # <<>> THEN Strip(content) ELSE <<>>
    IN  IF Strip(file_content) # <<>>
        THEN IF own # <<>> THEN own \o FileSeparator \o Strip(file_content)
             ELSE Strip(file_content)
        ELSE own

-----------------------------------------------------------------------------
(* ai_grading.py: TongyiQianwenAPI.__init__ and get_grading *)

MsgNoResult == <<"AI-pi-gai-shi-bai-wu-fa-huo-qu-you-xiao-jie-guo">>
MsgOracleError == <<"AI-pi-gai-chu-cuo:", " ", "e">>
MsgUnavailable == <<"AI-pi-gai-fu-wu-zan-shi-bu-ke-yong">>
MsgNoContent == <<"wei-ti-gong-wen-ben-nei-rong-huo-wen-jian-wu-fa-jin-xing-AI-pi-gai">>

\* What the oracle does with a request:
\*   "nokey"     QIANWEN_API_KEY is not set: the client's constructor raises
\*   "http"      the POST raises (network error, timeout, non-2xx status)
\*   "envelope"  the answer is JSON without output.text
\*   "answer"    the answer carries output.text = txt
Oracle(kind, txt) == [kind |-> kind, text |-> txt]

get_grading(oracle) ==
    CatchAll(IF oracle.kind = "http" THEN Raise("RequestException")
             ELSE IF oracle.kind = "envelope" THEN Return(<<None, MsgNoResult>>)
             ELSE parse_grading_result(oracle.text),
             <<None, MsgOracleError>>)

\* a handler that leaves ai_feedback unset when the oracle cannot be reached
Graded_SilentOnFailure(submission_content, oracle) ==
    IF submission_content # <<>>
    THEN IF oracle.kind \in {"nokey", "http"}
         THEN [ai_score |-> None, ai_feedback |-> None, sent |-> None]
         ELSE LET g == get_grading(oracle).value
              IN  [ai_score |-> g[1], ai_feedback |-> Some(g[2]),
                   sent |-> Some(submission_content)]
    ELSE [ai_score |-> None, ai_feedback |-> Some(MsgNoContent), sent |-> None]

\* ai_score, ai_feedback of submit_assignment, and what was sent to the oracle
Graded(submission_content, oracle) ==
    IF submission_content # <<>>
    THEN IF oracle.kind = "nokey"
         THEN [ai_score |-> None, ai_feedback |-> Some(MsgUnavailable), sent |-> None]
         ELSE LET g == get_grading(oracle).value
              IN  [ai_score |-> g[1], ai_feedback |-> Some(g[2]),
                   sent |-> Some(submission_content)]
    ELSE [ai_score |-> None, ai_feedback |-> Some(MsgNoContent), sent |-> None]

-----------------------------------------------------------------------------
(* The users table.  Registration is not part of the model: the accounts    *)
(* exist from the start, and an account can be removed from outside.       *)

AllUsers ==
    { [id |-> 1, username |-> "stu1", role |-> "student"],
      [id |-> 2, username |-> "stu2", role |-> "student"],
      [id |-> 3, username |-> "tea1", role |-> "teacher"],
      [id |-> 4, username |-> "tea2", role |-> "teacher"] }

MaxClock == 3
MaxDeleted == 1

-----------------------------------------------------------------------------
(* JSON web tokens: a payload and an HS256 signature over it *)

SecretKey == "SECRET_KEY"
OtherKey == "another-key"

\* timedelta(days=1)
TokenTTL == 1

Sign(payload, key) == [over |-> payload, key |-> key]

\* jwt.encode(payload, key, algorithm='HS256')
JwtEncode(payload, key) == [jwt |-> TRUE, payload |-> payload, sig |-> Sign(payload, key)]

EmptyPayload == [exp |-> 0, iat |-> 0, user |-> None]

\* a string that is no JWT at all
Garbage == [jwt |-> FALSE, payload |-> EmptyPayload, sig |-> Sign(EmptyPayload, "none")]

\* a token whose lifetime was not added to the time of issue
generate_token_NoLifetime(user, now) ==
    JwtEncode([exp |-> now,
               iat |-> now,
               user |-> Some([id |-> user.id, username |-> user.username,
                              role |-> user.role])],
              SecretKey)

\* routes/auth.py: generate_token
generate_token(user, now) ==
    JwtEncode([exp |-> now + TokenTTL,
               iat |-> now,
               user |-> Some([id |-> user.id, username |-> user.username,
                              role |-> user.role])],
              SecretKey)

\* The library's test of "exp" against the time: PyJWT 2 refuses a token from
\* the instant exp on, PyJWT 1 only after it.
JwtLibs == {"exp<=now", "exp<now"}

\* a decoder that does not look at "exp"
ExpiredAt_Never(exp, now, lib) == FALSE

ExpiredAt(exp, now, lib) == IF lib = "exp<=now" THEN exp <= now ELSE exp < now

\* jwt.decode(token, key, algorithms=["HS256"], options={"verify_exp": verifyExp})
JwtDecode(token, key, now, lib, verifyExp) ==
    IF ~token.jwt THEN Raise("DecodeError")
    ELSE IF token.sig # Sign(token.payload, key) THEN Raise("InvalidSignatureError")
    ELSE IF verifyExp /\ ExpiredAt(token.payload.exp, now, lib)
         THEN Raise("ExpiredSignatureError")
    ELSE Return(token.payload)

\* the subclasses of jwt.InvalidTokenError other than ExpiredSignatureError
InvalidTokenErrors == {"DecodeError", "InvalidSignatureError"}

\* payload['user']
PayloadUser(payload) ==
    IF payload.user = None THEN Raise("KeyError") ELSE Return(payload.user[1])

-----------------------------------------------------------------------------
(* The Authorization header of a request *)

NoHeader == [kind |-> "absent", token |-> Garbage]
BasicHeader == [kind |-> "basic", token |-> Garbage]
EmptyBearer == [kind |-> "bearer-empty", token |-> Garbage]
Bearer(tok) == [kind |-> "bearer", token |-> tok]

\* a payload signed with the server's key that names no user
NoUserToken(now) ==
    JwtEncode([exp |-> now + TokenTTL, iat |-> now, user |-> None], SecretKey)

\* the same payload as generate_token's, signed with another key
ForgedToken(user, now) ==
    JwtEncode(generate_token(user, now).payload, OtherKey)

\* a genuine signature carried over to the payload of another user
TamperedToken(user, other, now) ==
    [jwt |-> TRUE, payload |-> generate_token(other, now).payload,
     sig |-> generate_token(user, now).sig]

\* the tokens generate_token can have produced up to now
GenuineTokens(now) == {generate_token(u, t) : u \in AllUsers, t \in 0..now}

TokensAt(now) ==
    GenuineTokens(now)
    \cup {ForgedToken(u, t) : u \in AllUsers, t \in 0..now}
    \cup {TamperedToken(p[1], p[2], now) : p \in {q \in AllUsers \X AllUsers : q[1] # q[2]}}
    \cup {NoUserToken(t) : t \in 0..now}
    \cup {Garbage}

HeadersAt(now) ==
    {NoHeader, BasicHeader, EmptyBearer} \cup {Bearer(t) : t \in TokensAt(now)}

\* token = auth_header.split(" ")[1] when the header starts with 'Bearer '
BearerToken(h) == IF h.kind = "bearer" THEN Some(h.token) ELSE None

-----------------------------------------------------------------------------
(* routes/utils.py: token_required *)

\* a lookup that still finds the accounts that were removed
UserByIdRole_Stale(tbl, id, role) == {u \in AllUsers : u.id = id /\ u.role = role}

\* SELECT id, username, role FROM users WHERE id = %s AND role = %s
UserByIdRole(tbl, id, role) == {u \in tbl : u.id = id /\ u.role = role}

\* how the try block's exception is answered
AuthExcept(exc) ==
    IF exc = "ExpiredSignatureError" THEN [status |-> 401, error |-> "TokenExpired"]
    ELSE IF exc \in InvalidTokenErrors THEN [status |-> 401, error |-> "TokenInvalid"]
    ELSE [status |-> 500, error |-> "AuthFailed"]

Rejected(answer) == [ok |-> FALSE, status |-> answer.status, error |-> answer.error,
                     user |-> None]
Admitted(user) == [ok |-> TRUE, status |-> 200, error |-> "none", user |-> Some(user)]

token_required(h, tbl, now, lib) ==
    LET token == BearerToken(h)
    IN  IF token = None
        THEN Rejected([status |-> 401, error |-> "MissingToken"])
        ELSE LET payload == JwtDecode(token[1], SecretKey, now, lib, TRUE)
             IN  IF payload.raised THEN Rejected(AuthExcept(payload.exc)) ELSE
                 LET current_user_data == PayloadUser(payload.value)
                 IN  IF current_user_data.raised
                     THEN Rejected(AuthExcept(current_user_data.exc)) ELSE
                     LET found == UserByIdRole(tbl, current_user_data.value.id,
                                               current_user_data.value.role)
                     IN  IF found = {}
                         THEN Rejected([status |-> 401, error |-> "UserNotFound"])
                         ELSE Admitted(CHOOSE u \in found : TRUE)

-----------------------------------------------------------------------------
(* routes/auth.py: login and refresh_token *)

NoAuthCall == [op |-> "none", header |-> NoHeader, at |-> 0, status |-> 0,
               error |-> "none", ran |-> FALSE, user |-> None, token |-> None]

AuthAnswer(op, h, r, ran, tok) ==
    [op |-> op, header |-> h, at |-> clock, status |-> r.status, error |-> r.error,
     ran |-> ran, user |-> r.user, token |-> tok]

NoResp == [op |-> "none", user |-> None, status |-> 0, error |-> "none",
           detail |-> <<>>]

\* a day passes
Tick ==
    /\ clock < MaxClock
    /\ clock' = clock + 1
    /\ authResp' = NoAuthCall
    /\ resp' = NoResp
    /\ UNCHANGED <<users, jwtLib>>
    /\ UNCHANGED <<parseVars, tables, inflight>>

\* an account is removed from the credential store
DeleteUser(u) ==
    /\ u \in users
    /\ Cardinality(AllUsers \ users) < MaxDeleted
    /\ users' = users \ {u}
    /\ authResp' = NoAuthCall
    /\ UNCHANGED <<clock, jwtLib>>
    /\ UNCHANGED <<parseVars, storeVars>>

\* SELECT ... FROM users WHERE username = %s AND role = %s
UserByNameRole(tbl, username, role) ==
    {u \in tbl : u.username = username /\ u.role = role}

Login(username, role, passwordOk) ==
    LET found == UserByNameRole(users, username, role)
    IN  /\ IF found = {} \/ ~passwordOk
           THEN authResp' = AuthAnswer("login", NoHeader,
                                [status |-> 401, error |-> "BadCredentials",
                                 user |-> None], FALSE, None)
           ELSE LET user == CHOOSE u \in found : TRUE
                    token == generate_token(user, clock)
                IN  authResp' = AuthAnswer("login", NoHeader, Admitted(user),
                                           TRUE, Some(token))
        /\ UNCHANGED <<clock, users, jwtLib>>
        /\ UNCHANGED <<parseVars, storeVars>>

\* SELECT ... FROM users WHERE id = %s AND username = %s AND role = %s
UserByIdNameRole(tbl, id, username, role) ==
    {u \in tbl : u.id = id /\ u.username = username /\ u.role = role}

RefreshExcept(exc) ==
    IF exc = "ExpiredSignatureError" THEN [status |-> 401, error |-> "TokenExpired"]
    ELSE IF exc \in InvalidTokenErrors THEN [status |-> 401, error |-> "TokenInvalid"]
    ELSE [status |-> 500, error |-> "RefreshFailed"]

\* token = request.headers['Authorization'].split(" ")[1]: whatever follows
\* the first blank, be the scheme Bearer or not
SecondWord(h) ==
    IF h.kind \in {"absent", "bearer-empty"} THEN None ELSE Some(h.token)

refresh_token(h, tbl, now, lib) ==
    IF SecondWord(h) = None
    THEN [answer |-> Rejected([status |-> 401, error |-> "MissingToken"]), token |-> None]
    ELSE LET payload == JwtDecode(SecondWord(h)[1], SecretKey, now, lib, FALSE)
         IN  IF payload.raised
             THEN [answer |-> Rejected(RefreshExcept(payload.exc)), token |-> None] ELSE
             LET user_data == PayloadUser(payload.value)
             IN  IF user_data.raised
                 THEN [answer |-> Rejected(RefreshExcept(user_data.exc)), token |-> None]
                 ELSE
                 LET found == UserByIdNameRole(tbl, user_data.value.id,
                                  user_data.value.username, user_data.value.role)
                 IN  IF found = {}
                     THEN [answer |-> Rejected([status |-> 401, error |-> "UserNotFound"]),
                           token |-> None]
                     ELSE LET user == CHOOSE u \in found : TRUE
                          IN  [answer |-> Admitted(user),
                               token |-> Some(generate_token(user, now))]

RefreshToken(h) ==
    LET r == refresh_token(h, users, clock, jwtLib)
    IN  /\ authResp' = AuthAnswer("refresh", h, r.answer, r.answer.ok, r.token)
        /\ UNCHANGED <<clock, users, jwtLib>>
        /\ UNCHANGED <<parseVars, storeVars>>

\* any operation behind @token_required: it runs when the decorator admits
\* the caller, and does not run otherwise
ProtectedCall(h) ==
    LET r == token_required(h, users, clock, jwtLib)
    IN  /\ authResp' = AuthAnswer("protected", h, r, r.ok, None)
        /\ UNCHANGED <<clock, users, jwtLib>>
        /\ UNCHANGED <<parseVars, storeVars>>

AuthNext ==
    \/ Tick
    \/ \E u \in users : DeleteUser(u)
    \/ \E u \in AllUsers, ok \in BOOLEAN : Login(u.username, u.role, ok)
    \/ \E h \in HeadersAt(clock) : RefreshToken(h)
    \/ \E h \in HeadersAt(clock) : ProtectedCall(h)

-----------------------------------------------------------------------------
(* The relational store *)

MaxClasses == 1
MaxEnrollments == 1
MaxAssignments == 1
MaxSubmissions == 2

ClassCodes == {"ABC123", "XYZ789"}

Titles == {"hw"}

\* COALESCE(a, b)
Coalesce(a, b) == IF a # None THEN a ELSE b

AssignmentIds == {a.id : a \in assignments}

\* SELECT id FROM classes WHERE code = %s
ClassesByCode(code) == {c \in classes : c.code = code}

\* an ownership test that leaves the teacher out
OwnedClass_AnyTeacher(class_id, teacher) == {c \in classes : c.id = class_id}

\* SELECT id FROM classes WHERE id = %s AND teacher_id = %s
OwnedClass(class_id, teacher) ==
    {c \in classes : c.id = class_id /\ c.teacher_id = teacher}

\* a check that takes an enrollment in any class for one in this class
Enrollment_AnyClass(student, class_id) ==
    {e \in student_classes : e.student_id = student}

\* SELECT id FROM student_classes WHERE student_id = %s AND class_id = %s
Enrollment(student, class_id) ==
    {e \in student_classes : e.student_id = student /\ e.class_id = class_id}

\* SELECT id FROM assignments WHERE id = %s AND teacher_id = %s
OwnedAssignment(assignment_id, teacher) ==
    {a \in assignments : a.id = assignment_id /\ a.teacher_id = teacher}

\* SELECT id FROM submissions WHERE assignment_id = %s AND student_id = %s
SubmissionsOf(tbl, assignment_id, student) ==
    {r \in tbl : r.assignment_id = assignment_id /\ r.student_id = student}

\* a selection that forgets the class
SubmissionsInClass_AnyClass(class_id) == submissions

\* the submissions to the assignments of a class
SubmissionsInClass(class_id) ==
    {r \in submissions :
        \E a \in assignments : a.id = r.assignment_id /\ a.class_id = Some(class_id)}

-----------------------------------------------------------------------------
(* Answers of the routes *)

Reply(op, user, status, error, detail) ==
    [op |-> op, user |-> user, status |-> status, error |-> error, detail |-> detail]

\* a handler without its role test
RoleDenied_Never(current_user, role) == FALSE

\* if current_user['role'] != role: return 403
RoleDenied(current_user, role) == current_user.role # role

Auth(h) == token_required(h, users, clock, jwtLib)

\* The answer that ends a request before its handler's body: the decorator's
\* rejection or the handler's 403; None when the body runs.
Gate(op, h, role) ==
    LET a == Auth(h)
    IN  IF ~a.ok THEN Some(Reply(op, None, a.status, a.error, <<>>))
        ELSE IF RoleDenied(a.user[1], role)
             THEN Some(Reply(op, a.user, 403, "Forbidden", <<>>))
        ELSE None

Caller(h) == Auth(h).user[1]

\* the headers the routes are called with: none, and for each account the
\* token of a login made now
RouteHeaders == {NoHeader} \cup {Bearer(generate_token(u, clock)) : u \in AllUsers}

Rest == <<parseVars, users, jwtLib, authResp>>

\* a request that reads, or that ends without writing
Answers(r) ==
    /\ resp' = r
    /\ UNCHANGED <<tables, inflight, clock, Rest>>

-----------------------------------------------------------------------------
(* routes/student.py *)

\* the requests that can be under way at a time, one connection each
Slots == {1, 2}

Idle == [stage |-> "idle"]

\* join_class; limit bounds the enrollment ids the model hands out
JoinClassAt(h, code, limit) ==
    LET gate == Gate("join_class", h, "student")
    IN  IF gate # None THEN Answers(gate[1]) ELSE
        LET me == Caller(h)
            class_info == ClassesByCode(code)
        IN  IF code = "" THEN Answers(Reply("join_class", Some(me), 400, "NoCode", <<>>))
            ELSE IF class_info = {}
            THEN Answers(Reply("join_class", Some(me), 404, "NotFound", <<>>))
            ELSE LET class_id == (CHOOSE c \in class_info : TRUE).id
                 IN  IF Enrollment(me.id, class_id) # {}
                     THEN Answers(Reply("join_class", Some(me), 400, "Duplicate", <<>>))
                     ELSE /\ nextId.student_classes <= limit
                          /\ student_classes' = student_classes \cup
                                {[id |-> nextId.student_classes, student_id |-> me.id,
                                  class_id |-> class_id]}
                          /\ nextId' = [nextId EXCEPT !.student_classes = @ + 1]
                          /\ resp' = Reply("join_class", Some(me), 200, "none", class_id)
                          /\ UNCHANGED <<classes, assignments, submissions, inflight,
                                         clock, Rest>>

JoinClass(h, code) == JoinClassAt(h, code, MaxEnrollments)

MaxJoins == 4

\* The constraints of table student_classes: UNIQUE(student_id, class_id) and
\* the reference to an existing class.
EnrollmentInsertable_Unconstrained(tbl, student, class_id) == TRUE

EnrollmentInsertable(tbl, student, class_id) ==
    /\ {e \in tbl : e.student_id = student /\ e.class_id = class_id} = {}
    /\ \E c \in classes : c.id = class_id

\* join_class in two steps, for requests that overlap.  The first step runs
\* the handler through its two SELECTs, which find the class and no
\* enrollment; the second is the INSERT with its commit, or the rollback.
JoinSelect(slot, h, code) ==
    LET gate == Gate("join_class", h, "student")
        class_info == ClassesByCode(code)
    IN  /\ inflight[slot] = Idle
        /\ gate = None
        /\ class_info # {}
        /\ Enrollment(Caller(h).id, (CHOOSE c \in class_info : TRUE).id) = {}
        /\ inflight' = [inflight EXCEPT ![slot] =
                [stage |-> "joining", me |-> Caller(h),
                 class_id |-> (CHOOSE c \in class_info : TRUE).id,
                 overlaps |-> \E t \in Slots \ {slot} : inflight[t].stage = "joining"]]
        /\ resp' = NoResp
        /\ UNCHANGED <<tables, clock, Rest>>

JoinInsert(slot) ==
    LET q == inflight[slot]
    IN  /\ q.stage = "joining"
        /\ IF ~EnrollmentInsertable(student_classes, q.me.id, q.class_id)
           THEN /\ resp' = Reply("join_class", Some(q.me), 500, "IntegrityError",
                                 [class_id |-> q.class_id, overlaps |-> q.overlaps])
                /\ UNCHANGED tables
           ELSE /\ nextId.student_classes <= MaxJoins
                /\ student_classes' = student_classes \cup
                        {[id |-> nextId.student_classes, student_id |-> q.me.id,
                          class_id |-> q.class_id]}
                /\ nextId' = [nextId EXCEPT !.student_classes = @ + 1]
                /\ resp' = Reply("join_class", Some(q.me), 200, "none",
                                 [class_id |-> q.class_id, overlaps |-> q.overlaps])
                /\ UNCHANGED <<classes, assignments, submissions>>
        /\ inflight' = [inflight EXCEPT ![slot] = Idle]
        /\ UNCHANGED <<clock, Rest>>

GetStudentClasses(h) ==
    LET gate == Gate("get_student_classes", h, "student")
    IN  IF gate # None THEN Answers(gate[1]) ELSE
        LET me == Caller(h)
        IN  Answers(Reply("get_student_classes", Some(me), 200, "none",
                {c.id : c \in {c \in classes : Enrollment(me.id, c.id) # {}}}))

\* the assignments of the classes the student has joined
VisibleAssignments(student) ==
    {a \in assignments :
        \E e \in student_classes : e.student_id = student /\ a.class_id = Some(e.class_id)}

GetStudentAssignments(h) ==
    LET gate == Gate("get_student_assignments", h, "student")
    IN  IF gate # None THEN Answers(gate[1]) ELSE
        LET me == Caller(h)
        IN  Answers(Reply("get_student_assignments", Some(me), 200, "none",
                {[id |-> a.id,
                  submitted |-> \E r \in submissions :
                                    r.student_id = me.id /\ r.assignment_id = a.id] :
                    a \in VisibleAssignments(me.id)}))

GetStudentSubmissions(h) ==
    LET gate == Gate("get_student_submissions", h, "student")
    IN  IF gate # None THEN Answers(gate[1]) ELSE
        LET me == Caller(h)
        IN  Answers(Reply("get_student_submissions", Some(me), 200, "none",
                {r \in submissions :
                    r.student_id = me.id /\ r.assignment_id \in AssignmentIds}))

\* LIMIT n of ORDER BY submitted_at DESC
Latest(rows, n) ==
    IF Cardinality(rows) <= n THEN rows
    ELSE CHOOSE T \in SUBSET rows :
            /\ Cardinality(T) = n
            /\ \A r \in T, q \in rows \ T : r.submitted_at >= q.submitted_at

\* LIMIT 5
TrendLimit == 5

\* the rows of the trend query for one student and one class
TrendRows(student, class_id) ==
    Latest({r \in SubmissionsInClass(class_id) :
               /\ r.student_id = student
               /\ (r.score # None \/ r.ai_score # None)}, TrendLimit)

\* the grade taken from the oracle first
TrendGrade_AiFirst(r) == Coalesce(r.ai_score, r.score)

\* COALESCE(s.score, s.ai_score) as grade
TrendGrade(r) == Coalesce(r.score, r.ai_score)

TitleOf(assignment_id) == (CHOOSE a \in assignments : a.id = assignment_id).title

TrendEntry(r) ==
    [id |-> r.id, submitted_at |-> r.submitted_at, grade |-> TrendGrade(r),
     assignment_title |-> TitleOf(r.assignment_id)]

\* the classes of the student that have rows, each with its entries
GradeTrend(student) ==
    {[class_id |-> c.id, class_code |-> c.code,
      submissions |-> {TrendEntry(r) : r \in TrendRows(student, c.id)}] :
        c \in {c \in classes : Enrollment(student, c.id) # {}
                               /\ TrendRows(student, c.id) # {}}}

GetGradeTrend(h) ==
    LET gate == Gate("get_grade_trend", h, "student")
    IN  IF gate # None THEN Answers(gate[1]) ELSE
        LET me == Caller(h)
        IN  Answers(Reply("get_grade_trend", Some(me), 200, "none", GradeTrend(me.id)))

\* the values submit_assignment writes, and what it sent to the oracle
SubmissionValues(content, file, oracle, now) ==
    LET g == Graded(CombinedContent(content, FileContentOf(file)), oracle)
    IN  [content |-> content, file_url |-> FileUrlOf(file), submitted_at |-> now,
         ai_score |-> g.ai_score, ai_feedback |-> g.ai_feedback, sent |-> g.sent]

\* an update that also clears what the teacher had entered
UpdateSubmission_ClearsGrade(tbl, assignment_id, student, v) ==
    {IF r.assignment_id = assignment_id /\ r.student_id = student
     THEN [r EXCEPT !.content = v.content, !.file_url = v.file_url,
                    !.submitted_at = v.submitted_at, !.ai_score = v.ai_score,
                    !.ai_feedback = v.ai_feedback, !.score = None,
                    !.feedback = None, !.graded_at = None]
     ELSE r : r \in tbl}

\* UPDATE submissions SET content, file_url, submitted_at, ai_score, ai_feedback
\* WHERE assignment_id = %s AND student_id = %s
UpdateSubmission(tbl, assignment_id, student, v) ==
    {IF r.assignment_id = assignment_id /\ r.student_id = student
     THEN [r EXCEPT !.content = v.content, !.file_url = v.file_url,
                    !.submitted_at = v.submitted_at, !.ai_score = v.ai_score,
                    !.ai_feedback = v.ai_feedback]
     ELSE r : r \in tbl}

\* the row of INSERT INTO submissions (assignment_id, student_id, content,
\* file_url, submitted_at, ai_score, ai_feedback)
NewSubmission(id, assignment_id, student, v) ==
    [id |-> id, assignment_id |-> assignment_id, student_id |-> student,
     content |-> v.content, file_url |-> v.file_url, submitted_at |-> v.submitted_at,
     ai_score |-> v.ai_score, ai_feedback |-> v.ai_feedback,
     score |-> None, feedback |-> None, graded_at |-> None]

\* The constraints of table submissions: UNIQUE(assignment_id, student_id) and
\* the reference to an existing assignment.
SubmissionInsertable(tbl, assignment_id, student) ==
    /\ SubmissionsOf(tbl, assignment_id, student) = {}
    /\ assignment_id \in AssignmentIds

\* a write whose failure goes unnoticed
WriteSubmission_FailureUnnoticed(tbl, seen, id, assignment_id, student, v, dbOk) ==
    IF seen THEN Return(UpdateSubmission(tbl, assignment_id, student, v))
    ELSE Return(tbl \cup {NewSubmission(id, assignment_id, student, v)})

\* a write that inserts whatever the SELECT saw
WriteSubmission_AlwaysInsert(tbl, seen, id, assignment_id, student, v, dbOk) ==
    Return(tbl \cup {NewSubmission(id, assignment_id, student, v)})

\* The write of submit_assignment, given what its SELECT saw: the new table,
\* or the exception of the failed statement.
WriteSubmission(tbl, seen, id, assignment_id, student, v, dbOk) ==
    IF ~dbOk THEN Raise("OperationalError")
    ELSE IF seen THEN Return(UpdateSubmission(tbl, assignment_id, student, v))
    ELSE IF ~SubmissionInsertable(tbl, assignment_id, student)
         THEN Raise("IntegrityError")
    ELSE Return(tbl \cup {NewSubmission(id, assignment_id, student, v)})

\* what the answer to a submit is about: the request, what the handler's
\* SELECT saw, and the values the handler computed
SubmitDetail(assignment_id, file, v, seen, oracle, dbOk) ==
    [assignment_id |-> assignment_id, file |-> file, values |-> v, seen |-> seen,
     oracle |-> oracle, dbOk |-> dbOk]

\* the end of submit_assignment: write and commit, or roll back
SubmitOutcome(me, assignment_id, file, v, seen, oracle, dbOk) ==
    LET w == WriteSubmission(submissions, seen, nextId.submissions, assignment_id,
                             me.id, v, dbOk)
    IN  IF w.raised
        THEN /\ resp' = Reply("submit_assignment", Some(me), 500, w.exc,
                              SubmitDetail(assignment_id, file, v, seen, oracle, dbOk))
             /\ UNCHANGED tables
        ELSE /\ seen \/ nextId.submissions <= MaxSubmissions
             /\ submissions' = w.value
             /\ nextId' = IF seen THEN nextId
                          ELSE [nextId EXCEPT !.submissions = @ + 1]
             /\ resp' = Reply("submit_assignment", Some(me), 200, "none",
                              SubmitDetail(assignment_id, file, v, seen, oracle, dbOk))
             /\ UNCHANGED <<classes, student_classes, assignments>>

\* submit_assignment, from the request to the answer
SubmitAssignment(h, assignment_id, content, file, oracle, dbOk) ==
    LET gate == Gate("submit_assignment", h, "student")
    IN  IF gate # None THEN Answers(gate[1]) ELSE
        LET me == Caller(h)
        IN  /\ SubmitOutcome(me, assignment_id, file,
                    SubmissionValues(content, file, oracle, clock),
                    SubmissionsOf(submissions, assignment_id, me.id) # {}, oracle, dbOk)
            /\ UNCHANGED <<inflight, clock, Rest>>

\* submit_assignment in two steps, for requests that overlap.  The first
\* step runs the handler up to its SELECT on submissions; the second is the
\* UPDATE or INSERT with its commit.
SubmitSelect(slot, h, assignment_id, content, file, oracle) ==
    LET gate == Gate("submit_assignment", h, "student")
    IN  /\ inflight[slot] = Idle
        /\ gate = None
        /\ inflight' = [inflight EXCEPT ![slot] =
                [stage |-> "selected", me |-> Caller(h), assignment_id |-> assignment_id,
                 content |-> content, file |-> file, oracle |-> oracle,
                 seen |-> SubmissionsOf(submissions, assignment_id, Caller(h).id) # {},
                 overlaps |-> \E t \in Slots \ {slot} : inflight[t].stage = "selected"]]
        /\ resp' = NoResp
        /\ UNCHANGED <<tables, clock, Rest>>

SubmitWrite(slot) ==
    LET q == inflight[slot]
    IN  /\ q.stage = "selected"
        /\ SubmitOutcome(q.me, q.assignment_id, q.file,
                SubmissionValues(q.content, q.file, q.oracle, clock), q.seen,
                q.oracle, TRUE)
        /\ inflight' = [inflight EXCEPT ![slot] =
                [stage |-> "done", me |-> q.me, assignment_id |-> q.assignment_id,
                 overlaps |-> q.overlaps, status |-> resp'.status, values |-> resp'.detail.values,
                 order |-> 1 + Cardinality({t \in Slots : inflight[t].stage = "done"})]]
        /\ UNCHANGED <<clock, Rest>>

MaxRecords == 3

MsgTooFewRecords == <<"shu-ju-bu-zu-wu-fa-jin-xing-qu-shi-fen-xi">>
MsgNoAnalysis == <<"AI-fen-xi-shi-bai-wu-fa-huo-qu-you-xiao-jie-guo">>
MsgAnalysisError == <<"AI-fen-xi-chu-cuo:", " ", "e">>

\* A record of grade_data is modelled by the keys it has; the request's JSON
\* is passed on as it came.
RecordKeys == {"submitted_at", "grade", "assignment_title"}

\* item['grade'], item['submitted_at'], item['assignment_title'] of every record
ReadRecords(grade_data) ==
    IF \A i \in 1..Len(grade_data) : RecordKeys \subseteq grade_data[i]
    THEN Return(grade_data) ELSE Raise("KeyError")

\* the try block: the POST and the reading of its answer
AnalysisRequest(oracle) ==
    CatchAll(IF oracle.kind = "http" THEN Raise("RequestException")
             ELSE IF oracle.kind = "envelope" THEN Return(<<MsgNoAnalysis, FALSE>>)
             ELSE Return(<<Strip(oracle.text), TRUE>>),
             <<MsgAnalysisError, FALSE>>)

\* ai_grading.py: TongyiQianwenAPI.analyze_grade_trend: what the call
\* produces, and whether it sent a request to the oracle
analyze_grade_trend(grade_data, oracle) ==
    IF Len(grade_data) < 2
    THEN [outcome |-> Return(<<MsgTooFewRecords, FALSE>>), contacted |-> FALSE]
    ELSE IF ReadRecords(grade_data).raised
    THEN [outcome |-> ReadRecords(grade_data), contacted |-> FALSE]
    ELSE [outcome |-> AnalysisRequest(oracle), contacted |-> TRUE]

\* routes/student.py: analyze_grade_trend
AnalyzeGradeTrend(h, named, grade_data, oracle) ==
    LET gate == Gate("analyze_grade_trend", h, "student")
    IN  IF gate # None THEN Answers(gate[1]) ELSE
        LET me == Caller(h)
            r == analyze_grade_trend(grade_data, oracle)
        IN  IF ~named \/ grade_data = <<>>
            THEN Answers(Reply("analyze_grade_trend", Some(me), 400, "MissingParameter", <<>>))
            ELSE IF oracle.kind = "nokey"
            THEN Answers(Reply("analyze_grade_trend", Some(me), 500, "AnalysisFailed", <<>>))
            ELSE IF r.outcome.raised
            THEN Answers(Reply("analyze_grade_trend", Some(me), 500, "AnalysisFailed",
                               [grade_data |-> grade_data, oracle |-> oracle, call |-> r]))
            ELSE Answers(Reply("analyze_grade_trend", Some(me), 200, "none",
                               [grade_data |-> grade_data, oracle |-> oracle, call |-> r]))

-----------------------------------------------------------------------------
(* routes/teacher.py *)

\* generate_class_code returns a code at random; create_class draws again
\* while the code is taken, so the code it inserts is one no class has.
CreateClass(h, code) ==
    LET gate == Gate("create_class", h, "teacher")
    IN  IF gate # None THEN Answers(gate[1]) ELSE
        LET me == Caller(h)
        IN  /\ ClassesByCode(code) = {}
            /\ nextId.classes <= MaxClasses
            /\ classes' = classes \cup
                    {[id |-> nextId.classes, code |-> code, teacher_id |-> me.id]}
            /\ nextId' = [nextId EXCEPT !.classes = @ + 1]
            /\ resp' = Reply("create_class", Some(me), 201, "none", nextId.classes)
            /\ UNCHANGED <<student_classes, assignments, submissions, inflight,
                           clock, Rest>>
MaxCreates == 3

\* a table without its unique key
ClassInsertable_Unconstrained(tbl, code) == TRUE

\* The constraint of table classes: code UNIQUE.
ClassInsertable(tbl, code) == {c \in tbl : c.code = code} = {}

\* create_class in steps, for requests that overlap.  The first step is the
\* call of generate_class_code before the loop.
CreateDraw(slot, h, code) ==
    /\ inflight[slot] = Idle
    /\ Gate("create_class", h, "teacher") = None
    /\ inflight' = [inflight EXCEPT ![slot] =
            [stage |-> "drawn", me |-> Caller(h), code |-> code,
             rerolled |-> FALSE, overlaps |-> FALSE]]
    /\ resp' = NoResp
    /\ UNCHANGED <<tables, clock, Rest>>

\* One turn of the while loop: the SELECT by code, then the break when no
\* class has the code, or another call of generate_class_code.
CreateCheck(slot, code) ==
    LET q == inflight[slot]
    IN  /\ q.stage = "drawn"
        /\ inflight' = [inflight EXCEPT ![slot] =
                IF ClassesByCode(q.code) = {}
                THEN [q EXCEPT !.stage = "checked",
                               !.overlaps = \E t \in Slots \ {slot} :
                                                inflight[t].stage \in {"drawn", "checked"}]
                ELSE [q EXCEPT !.code = code, !.rerolled = TRUE]]
        /\ resp' = NoResp
        /\ UNCHANGED <<tables, clock, Rest>>

\* The INSERT with its commit, or the rollback.
CreateInsert(slot) ==
    LET q == inflight[slot]
        detail == [code |-> q.code, rerolled |-> q.rerolled, overlaps |-> q.overlaps]
    IN  /\ q.stage = "checked"
        /\ IF ~ClassInsertable(classes, q.code)
           THEN /\ resp' = Reply("create_class", Some(q.me), 500, "IntegrityError", detail)
                /\ UNCHANGED tables
           ELSE /\ nextId.classes <= MaxCreates
                /\ classes' = classes \cup
                        {[id |-> nextId.classes, code |-> q.code, teacher_id |-> q.me.id]}
                /\ nextId' = [nextId EXCEPT !.classes = @ + 1]
                /\ resp' = Reply("create_class", Some(q.me), 201, "none", detail)
                /\ UNCHANGED <<student_classes, assignments, submissions>>
        /\ inflight' = [inflight EXCEPT ![slot] = Idle]
        /\ UNCHANGED <<clock, Rest>>

GetTeacherClasses(h) ==
    LET gate == Gate("get_teacher_classes", h, "teacher")
    IN  IF gate # None THEN Answers(gate[1]) ELSE
        LET me == Caller(h)
        IN  Answers(Reply("get_teacher_classes", Some(me), 200, "none",
                {[id |-> c.id,
                  student_count |-> Cardinality({e \in student_classes : e.class_id = c.id})] :
                    c \in {c \in classes : c.teacher_id = me.id}}))

GetClassStudents(h, class_id) ==
    LET gate == Gate("get_class_students", h, "teacher")
    IN  IF gate # None THEN Answers(gate[1]) ELSE
        LET me == Caller(h)
        IN  IF OwnedClass(class_id, me.id) = {}
            THEN Answers(Reply("get_class_students", Some(me), 404, "NotFound", <<>>))
            ELSE Answers(Reply("get_class_students", Some(me), 200, "none",
                    {e.student_id : e \in {e \in student_classes :
                        e.class_id = class_id /\ \E u \in users : u.id = e.student_id}}))

RemoveStudentFromClass(h, class_id, student_id) ==
    LET gate == Gate("remove_student_from_class", h, "teacher")
    IN  IF gate # None THEN Answers(gate[1]) ELSE
        LET me == Caller(h)
        IN  IF OwnedClass(class_id, me.id) = {}
            THEN Answers(Reply("remove_student_from_class", Some(me), 404, "NotFound", <<>>))
            ELSE IF Enrollment(student_id, class_id) = {}
            THEN Answers(Reply("remove_student_from_class", Some(me), 404, "NotInClass", <<>>))
            ELSE /\ submissions' = submissions \
                        {r \in SubmissionsInClass(class_id) : r.student_id = student_id}
                 /\ student_classes' = student_classes \ Enrollment(student_id, class_id)
                 /\ resp' = Reply("remove_student_from_class", Some(me), 200, "none", <<>>)
                 /\ UNCHANGED <<classes, assignments, nextId, inflight, clock, Rest>>

\* a cascade that stops at the assignments
ClassCascade_KeepsSubmissions(class_id) ==
    [student_classes |-> {e \in student_classes : e.class_id # class_id},
     assignments |-> {a \in assignments : a.class_id # Some(class_id)},
     submissions |-> submissions]

\* What the foreign keys delete along with a class: its enrollments, its
\* assignments, and the submissions to those.
ClassCascade(class_id) ==
    [student_classes |-> {e \in student_classes : e.class_id # class_id},
     assignments |-> {a \in assignments : a.class_id # Some(class_id)},
     submissions |-> submissions \ SubmissionsInClass(class_id)]

\* DELETE FROM classes WHERE id = %s
DeleteClass(h, class_id) ==
    LET gate == Gate("delete_class", h, "teacher")
    IN  IF gate # None THEN Answers(gate[1]) ELSE
        LET me == Caller(h)
        IN  IF OwnedClass(class_id, me.id) = {}
            THEN Answers(Reply("delete_class", Some(me), 404, "NotFound", <<>>))
            ELSE /\ classes' = {c \in classes : c.id # class_id}
                 /\ student_classes' = ClassCascade(class_id).student_classes
                 /\ assignments' = ClassCascade(class_id).assignments
                 /\ submissions' = ClassCascade(class_id).submissions
                 /\ resp' = Reply("delete_class", Some(me), 200, "none", <<>>)
                 /\ UNCHANGED <<nextId, inflight, clock, Rest>>

\* class_id is None when the request names no class
CreateAssignment(h, title, class_id) ==
    LET gate == Gate("create_assignment", h, "teacher")
    IN  IF gate # None THEN Answers(gate[1]) ELSE
        LET me == Caller(h)
        IN  IF class_id # None /\ OwnedClass(class_id[1], me.id) = {}
            THEN Answers(Reply("create_assignment", Some(me), 404, "NotFound", <<>>))
            ELSE /\ nextId.assignments <= MaxAssignments
                 /\ assignments' = assignments \cup
                        {[id |-> nextId.assignments, title |-> title,
                          teacher_id |-> me.id, class_id |-> class_id]}
                 /\ nextId' = [nextId EXCEPT !.assignments = @ + 1]
                 /\ resp' = Reply("create_assignment", Some(me), 200, "none", <<>>)
                 /\ UNCHANGED <<classes, student_classes, submissions, inflight,
                                clock, Rest>>

GetTeacherAssignments(h) ==
    LET gate == Gate("get_teacher_assignments", h, "teacher")
    IN  IF gate # None THEN Answers(gate[1]) ELSE
        LET me == Caller(h)
        IN  Answers(Reply("get_teacher_assignments", Some(me), 200, "none",
                {a.id : a \in {a \in assignments : a.teacher_id = me.id}}))

\* a delete that takes the submissions of the whole class along
SubmissionsTo_WholeClass(assignment_id) ==
    {r \in submissions :
        \E a \in assignments, b \in assignments :
            a.id = assignment_id /\ b.id = r.assignment_id /\ b.class_id = a.class_id}

\* DELETE FROM submissions WHERE assignment_id = %s
SubmissionsTo(assignment_id) == {r \in submissions : r.assignment_id = assignment_id}

DeleteAssignment(h, assignment_id) ==
    LET gate == Gate("delete_assignment", h, "teacher")
    IN  IF gate # None THEN Answers(gate[1]) ELSE
        LET me == Caller(h)
        IN  IF OwnedAssignment(assignment_id, me.id) = {}
            THEN Answers(Reply("delete_assignment", Some(me), 404, "NotFound", <<>>))
            ELSE /\ submissions' = submissions \ SubmissionsTo(assignment_id)
                 /\ assignments' = {a \in assignments : a.id # assignment_id}
                 /\ resp' = Reply("delete_assignment", Some(me), 200, "none", <<>>)
                 /\ UNCHANGED <<classes, student_classes, nextId, inflight, clock, Rest>>

GetSubmissions(h, assignment_id) ==
    LET gate == Gate("get_submissions", h, "teacher")
    IN  IF gate # None THEN Answers(gate[1]) ELSE
        LET me == Caller(h)
            found == OwnedAssignment(assignment_id, me.id)
        IN  IF found = {}
            THEN Answers(Reply("get_submissions", Some(me), 404, "NotFound", <<>>))
            ELSE LET class_id == (CHOOSE a \in found : TRUE).class_id
                     rows == {r \in submissions : r.assignment_id = assignment_id
                                 /\ \E u \in users : u.id = r.student_id}
                     total == IF class_id = None THEN 0
                              ELSE Cardinality({e \in student_classes :
                                                    e.class_id = class_id[1]})
                 IN  Answers(Reply("get_submissions", Some(me), 200, "none",
                        [submissions |-> {r.id : r \in rows},
                         total_students |-> total,
                         submitted_count |-> Cardinality(rows),
                         graded_count |-> Cardinality({r \in rows : r.score # None})]))

\* UPDATE submissions SET score, feedback, graded_at WHERE id = %s
GradeSubmission(h, submission_id, score, feedback) ==
    LET gate == Gate("grade_submission", h, "teacher")
    IN  IF gate # None THEN Answers(gate[1]) ELSE
        LET me == Caller(h)
        IN  /\ submissions' =
                {IF r.id = submission_id
                 THEN [r EXCEPT !.score = Some(score), !.feedback = Some(feedback),
                                !.graded_at = Some(clock)]
                 ELSE r : r \in submissions}
            /\ resp' = Reply("grade_submission", Some(me), 200, "none", <<>>)
            /\ UNCHANGED <<classes, student_classes, assignments, nextId, inflight,
                           clock, Rest>>

-----------------------------------------------------------------------------
(* The specifications *)

NotParsed == [raised |-> FALSE, value |-> <<"pending">>, exc |-> "pending"]

ParseInit ==
    /\ text = <<>>
    /\ parsed = NotParsed
    /\ clock = 0
    /\ users = AllUsers
    /\ jwtLib = "exp<=now"
    /\ authResp = NoAuthCall
    /\ classes = {}
    /\ student_classes = {}
    /\ assignments = {}
    /\ submissions = {}
    /\ nextId = [classes |-> 1, student_classes |-> 1, assignments |-> 1,
                 submissions |-> 1]
    /\ inflight = [t \in Slots |-> Idle]
    /\ resp = NoResp

\* the oracle's answer grows by a line
OracleWrites(line) ==
    /\ parsed = NotParsed
    /\ LineCount(text) < MaxLines
    /\ text' = IF text = <<>> THEN line ELSE text \o <<"\n">> \o line
    /\ UNCHANGED parsed
    /\ UNCHANGED <<authVars, storeVars>>

ParseGradingResult ==
    /\ parsed = NotParsed
    /\ parsed' = parse_grading_result(text)
    /\ UNCHANGED text
    /\ UNCHANGED <<authVars, storeVars>>

ParseNext ==
    \/ \E n \in 0..(MaxFields - Count(text, ":")) : \E line \in LinesByColons[n] :
            OracleWrites(line)
    \/ ParseGradingResult

SpecParse == ParseInit /\ [][ParseNext]_vars

AuthInit ==
    /\ clock = 0
    /\ users = AllUsers
    /\ jwtLib \in JwtLibs
    /\ authResp = NoAuthCall
    /\ text = <<>>
    /\ parsed = NotParsed
    /\ classes = {}
    /\ student_classes = {}
    /\ assignments = {}
    /\ submissions = {}
    /\ nextId = [classes |-> 1, student_classes |-> 1, assignments |-> 1,
                 submissions |-> 1]
    /\ inflight = [t \in Slots |-> Idle]
    /\ resp = NoResp

SpecAuth == AuthInit /\ [][AuthNext]_vars

\* an answer of the oracle in the format it was asked for
GoodAnswer == ScoreHead \o <<":", " ", "8", "7", "\n">> \o FeedbackHead \o <<":", " ", "o", "k">>

\* a text with its oracle's behaviour
Works == {[content |-> <<"a">>, oracle |-> Oracle("answer", GoodAnswer)],
          [content |-> <<"b">>, oracle |-> Oracle("http", <<>>)]}

\* grade_data of n records that have every key
GradeData(n) == [i \in 1..n |-> RecordKeys]

\* class_name given or not, the records, the oracle's behaviour
TrendRequests ==
    {[named |-> FALSE, grade_data |-> GradeData(2), oracle |-> Oracle("answer", GoodAnswer)],
     [named |-> TRUE, grade_data |-> GradeData(0), oracle |-> Oracle("answer", GoodAnswer)],
     [named |-> TRUE, grade_data |-> GradeData(1), oracle |-> Oracle("answer", GoodAnswer)],
     [named |-> TRUE, grade_data |-> GradeData(MaxRecords), oracle |-> Oracle("answer", GoodAnswer)],
     [named |-> TRUE, grade_data |-> GradeData(MaxRecords), oracle |-> Oracle("http", <<>>)],
     [named |-> TRUE, grade_data |-> GradeData(MaxRecords), oracle |-> Oracle("nokey", <<>>)]}

Students == {u \in AllUsers : u.role = "student"}

TeacherScores == {90}

\* The routes of the two blueprints, one request at a time, on a store that
\* starts empty.
Init ==
    /\ clock = 0
    /\ users = AllUsers
    /\ jwtLib = "exp<=now"
    /\ authResp = NoAuthCall
    /\ text = <<>>
    /\ parsed = NotParsed
    /\ classes = {}
    /\ student_classes = {}
    /\ assignments = {}
    /\ submissions = {}
    /\ nextId = [classes |-> 1, student_classes |-> 1, assignments |-> 1,
                 submissions |-> 1]
    /\ inflight = [t \in Slots |-> Idle]
    /\ resp = NoResp

\* the server takes one request at a time: the next one is served when the
\* answer to the last one has left
Ready == resp = NoResp

TakeAnswer ==
    /\ resp # NoResp
    /\ resp' = NoResp
    /\ UNCHANGED <<tables, inflight, clock, Rest>>

Next ==
    \/ TakeAnswer
    \/ \E h \in RouteHeaders, code \in ClassCodes \cup {""} : Ready /\ JoinClass(h, code)
    \/ \E h \in RouteHeaders : Ready /\ GetStudentClasses(h)
    \/ \E h \in RouteHeaders : Ready /\ GetStudentAssignments(h)
    \/ \E h \in RouteHeaders, a \in 1..MaxAssignments, w \in Works :
            Ready /\ SubmitAssignment(h, a, w.content, NoFile, w.oracle, TRUE)
    \/ \E h \in RouteHeaders : Ready /\ GetStudentSubmissions(h)
    \/ \E h \in RouteHeaders : Ready /\ GetGradeTrend(h)
    \/ \E h \in RouteHeaders, q \in TrendRequests :
            Ready /\ AnalyzeGradeTrend(h, q.named, q.grade_data, q.oracle)
    \/ \E h \in RouteHeaders, code \in ClassCodes : Ready /\ CreateClass(h, code)
    \/ \E h \in RouteHeaders : Ready /\ GetTeacherClasses(h)
    \/ \E h \in RouteHeaders, c \in 1..MaxClasses : Ready /\ GetClassStudents(h, c)
    \/ \E h \in RouteHeaders, c \in 1..MaxClasses, u \in Students :
            Ready /\ RemoveStudentFromClass(h, c, u.id)
    \/ \E h \in RouteHeaders, c \in 1..MaxClasses : Ready /\ DeleteClass(h, c)
    \/ \E h \in RouteHeaders, t \in Titles, c \in {None} \cup {Some(i) : i \in 1..MaxClasses} :
            Ready /\ CreateAssignment(h, t, c)
    \/ \E h \in RouteHeaders : Ready /\ GetTeacherAssignments(h)
    \/ \E h \in RouteHeaders, a \in 1..MaxAssignments : Ready /\ DeleteAssignment(h, a)
    \/ \E h \in RouteHeaders, a \in 1..MaxAssignments : Ready /\ GetSubmissions(h, a)
    \/ \E h \in RouteHeaders, r \in 1..MaxSubmissions, sc \in TeacherScores :
            Ready /\ GradeSubmission(h, r, sc, <<"fine">>)

Spec == Init /\ [][Next]_vars

\* The grading routes on a store that create_class, create_assignment and
\* join_class have filled: one class of tea1 with two assignments, both
\* students enrolled.
GradesInit ==
    /\ clock = 0
    /\ users = AllUsers
    /\ jwtLib = "exp<=now"
    /\ authResp = NoAuthCall
    /\ text = <<>>
    /\ parsed = NotParsed
    /\ classes = {[id |-> 1, code |-> "ABC123", teacher_id |-> 3]}
    /\ student_classes = {[id |-> 1, student_id |-> 1, class_id |-> 1],
                          [id |-> 2, student_id |-> 2, class_id |-> 1]}
    /\ assignments = {[id |-> 1, title |-> "hw", teacher_id |-> 3, class_id |-> Some(1)],
                      [id |-> 2, title |-> "hw", teacher_id |-> 3, class_id |-> Some(1)]}
    /\ submissions = {}
    /\ nextId = [classes |-> 2, student_classes |-> 3, assignments |-> 3,
                 submissions |-> 1]
    /\ inflight = [t \in Slots |-> Idle]
    /\ resp = NoResp

GradesNext ==
    \/ TakeAnswer
    \/ Ready /\ Tick
    \/ \E h \in RouteHeaders, a \in 1..nextId.assignments, w \in Works :
            Ready /\ SubmitAssignment(h, a, w.content, NoFile, w.oracle, TRUE)
    \/ \E h \in RouteHeaders, r \in 1..MaxSubmissions, sc \in TeacherScores :
            Ready /\ GradeSubmission(h, r, sc, <<"fine">>)
    \/ \E h \in RouteHeaders : Ready /\ GetGradeTrend(h)

SpecGrades == GradesInit /\ [][GradesNext]_vars

\* submit_assignment with every kind of text, upload and oracle behaviour, by
\* one student for one assignment of the filled store.
SubmitContents == {<<>>, <<" ">>, <<"a">>}

Stems == {<<"h", "w">>, <<"zuo">>}

Extensions == {"pdf", "docx", "doc", "txt"}

Bodies == {"text", "broken", "nolib", "crash"}

Words == {<<>>, <<"w">>}

Files ==
    {NoFile} \cup {Upload(st, e, b, w) : st \in Stems, e \in Extensions, b \in Bodies,
                                          w \in Words}

TooHighAnswer == ScoreHead \o <<":", " ", "1", "0", "1", "\n">> \o FeedbackHead \o <<":", " ", "o", "k">>

Oracles ==
    {Oracle("nokey", <<>>), Oracle("http", <<>>), Oracle("envelope", <<>>),
     Oracle("answer", GoodAnswer), Oracle("answer", TooHighAnswer),
     Oracle("answer", <<"o", "k">>)}

SubmitInit ==
    /\ clock = 0
    /\ users = AllUsers
    /\ jwtLib = "exp<=now"
    /\ authResp = NoAuthCall
    /\ text = <<>>
    /\ parsed = NotParsed
    /\ classes = {[id |-> 1, code |-> "ABC123", teacher_id |-> 3]}
    /\ student_classes = {[id |-> 1, student_id |-> 1, class_id |-> 1]}
    /\ assignments = {[id |-> 1, title |-> "hw", teacher_id |-> 3, class_id |-> Some(1)]}
    /\ submissions = {}
    /\ nextId = [classes |-> 2, student_classes |-> 2, assignments |-> 2,
                 submissions |-> 1]
    /\ inflight = [t \in Slots |-> Idle]
    /\ resp = NoResp

SubmitNext ==
    \/ TakeAnswer
    \/ \E c \in SubmitContents, f \in Files, o \in Oracles, dbOk \in BOOLEAN :
            Ready /\ SubmitAssignment(Bearer(generate_token(CHOOSE u \in AllUsers : u.id = 1, clock)),
                                      1, c, f, o, dbOk)

SpecSubmit == SubmitInit /\ [][SubmitNext]_vars

\* Two submits of one student for one assignment, each in its own request and
\* transaction, on the filled store; the pair has no row yet, or has one.
RaceInit ==
    /\ clock = 0
    /\ users = AllUsers
    /\ jwtLib = "exp<=now"
    /\ authResp = NoAuthCall
    /\ text = <<>>
    /\ parsed = NotParsed
    /\ classes = {[id |-> 1, code |-> "ABC123", teacher_id |-> 3]}
    /\ student_classes = {[id |-> 1, student_id |-> 1, class_id |-> 1]}
    /\ assignments = {[id |-> 1, title |-> "hw", teacher_id |-> 3, class_id |-> Some(1)]}
    /\ submissions \in
            { {},
              {NewSubmission(1, 1, 1,
                    SubmissionValues(<<"a">>, NoFile, Oracle("answer", GoodAnswer), 0))} }
    /\ nextId = [classes |-> 2, student_classes |-> 2, assignments |-> 2,
                 submissions |-> IF submissions = {} THEN 1 ELSE 2]
    /\ inflight = [t \in Slots |-> Idle]
    /\ resp = NoResp

RaceNext ==
    \/ Tick
    \/ \E t \in Slots, w \in Works :
            SubmitSelect(t, Bearer(generate_token(CHOOSE u \in AllUsers : u.id = 1, clock)),
                         1, w.content, NoFile, w.oracle)
    \/ \E t \in Slots : SubmitWrite(t)

SpecRace == RaceInit /\ [][RaceNext]_vars

\* join_class and remove_student_from_class, one request at a time, on a
\* store with a class of each teacher and no enrollment yet.
JoinCodes == ClassCodes \cup {"", "QQQ000"}

EnrollInit ==
    /\ clock = 0
    /\ users = AllUsers
    /\ jwtLib = "exp<=now"
    /\ authResp = NoAuthCall
    /\ text = <<>>
    /\ parsed = NotParsed
    /\ classes \in { {[id |-> 1, code |-> "ABC123", teacher_id |-> 3]},
                      {[id |-> 1, code |-> "ABC123", teacher_id |-> 3],
                       [id |-> 2, code |-> "XYZ789", teacher_id |-> 4]} }
    /\ student_classes = {}
    /\ assignments = {}
    /\ submissions = {}
    /\ nextId = [classes |-> 3, student_classes |-> 1, assignments |-> 1,
                 submissions |-> 1]
    /\ inflight = [t \in Slots |-> Idle]
    /\ resp = NoResp

EnrollNext ==
    \/ TakeAnswer
    \/ \E h \in RouteHeaders, code \in JoinCodes : Ready /\ JoinClassAt(h, code, MaxJoins)
    \/ \E h \in RouteHeaders, c \in 1..2, u \in Students :
            Ready /\ RemoveStudentFromClass(h, c, u.id)

SpecEnroll == EnrollInit /\ [][EnrollNext]_vars

\* The same requests when the joins overlap: each join is a request of its
\* own, with its own transaction.
StudentHeaders == {Bearer(generate_token(u, clock)) : u \in Students}

TeacherHeaders == {Bearer(generate_token(u, clock)) : u \in AllUsers \ Students}

JoinRaceNext ==
    \/ \E t \in Slots, h \in StudentHeaders, code \in ClassCodes : JoinSelect(t, h, code)
    \/ \E t \in Slots : JoinInsert(t)
    \/ \E h \in TeacherHeaders, c \in 1..2, u \in Students :
            RemoveStudentFromClass(h, c, u.id)

SpecJoinRace == EnrollInit /\ [][JoinRaceNext]_vars

\* Submits and deletions on a store with a class of each teacher: two
\* assignments in the first class, one in the second, both students in both.
DeleteInit ==
    /\ clock = 0
    /\ users = AllUsers
    /\ jwtLib = "exp<=now"
    /\ authResp = NoAuthCall
    /\ text = <<>>
    /\ parsed = NotParsed
    /\ classes = {[id |-> 1, code |-> "ABC123", teacher_id |-> 3],
                  [id |-> 2, code |-> "XYZ789", teacher_id |-> 4]}
    /\ student_classes = {[id |-> 1, student_id |-> 1, class_id |-> 1],
                          [id |-> 2, student_id |-> 2, class_id |-> 1],
                          [id |-> 3, student_id |-> 1, class_id |-> 2],
                          [id |-> 4, student_id |-> 2, class_id |-> 2]}
    /\ assignments = {[id |-> 1, title |-> "hw", teacher_id |-> 3, class_id |-> Some(1)],
                      [id |-> 2, title |-> "hw", teacher_id |-> 3, class_id |-> Some(1)],
                      [id |-> 3, title |-> "hw", teacher_id |-> 4, class_id |-> Some(2)]}
    /\ submissions = {}
    /\ nextId = [classes |-> 3, student_classes |-> 5, assignments |-> 4,
                 submissions |-> 1]
    /\ inflight = [t \in Slots |-> Idle]
    /\ resp = NoResp

DeleteNext ==
    \/ TakeAnswer
    \/ \E h \in StudentHeaders, a \in 1..3, w \in Works :
            Ready /\ SubmitAssignment(h, a, w.content, NoFile, w.oracle, TRUE)
    \/ \E h \in RouteHeaders, c \in 1..2 : Ready /\ DeleteClass(h, c)
    \/ \E h \in RouteHeaders, a \in 1..3 : Ready /\ DeleteAssignment(h, a)

SpecDelete == DeleteInit /\ [][DeleteNext]_vars

\* The trend analysis called by a student with every grade_data of up to
\* MaxRecords records, complete or lacking a key, and every behaviour of the
\* oracle.
RecordShapes == {RecordKeys} \cup {RecordKeys \ {k} : k \in RecordKeys}

GradeDatas == UNION {SeqsOfLen(RecordShapes, n) : n \in 0..MaxRecords}

AnalysisOracles ==
    {Oracle("nokey", <<>>), Oracle("http", <<>>), Oracle("envelope", <<>>),
     Oracle("answer", <<" ", "u", "p", "\n">>), Oracle("answer", <<>>)}

TrendNext ==
    \/ TakeAnswer
    \/ \E h \in StudentHeaders, named \in BOOLEAN, g \in GradeDatas, o \in AnalysisOracles :
            Ready /\ AnalyzeGradeTrend(h, named, g, o)

SpecTrend == Init /\ [][TrendNext]_vars

\* The teacher's routes that change the store, together with submits, on the
\* store of DeleteInit; the ids range one past what the store holds (class 3,
\* assignment 4, submission MaxSubmissions + 1), so that every route is also
\* called for a class, an assignment and a submission that do not exist.
TeachNext ==
    \/ TakeAnswer
    \/ \E h \in StudentHeaders, a \in 1..4 :
            Ready /\ SubmitAssignment(h, a, <<"a">>, NoFile, Oracle("answer", GoodAnswer), TRUE)
    \/ \E h \in RouteHeaders, r \in 1..(MaxSubmissions + 1), sc \in TeacherScores :
            Ready /\ GradeSubmission(h, r, sc, <<"fine">>)
    \/ \E h \in RouteHeaders, c \in 1..3, u \in Students :
            Ready /\ RemoveStudentFromClass(h, c, u.id)
    \/ \E h \in RouteHeaders, c \in 1..3 : Ready /\ DeleteClass(h, c)
    \/ \E h \in RouteHeaders, a \in 1..4 : Ready /\ DeleteAssignment(h, a)

SpecTeach == DeleteInit /\ [][TeachNext]_vars

\* The same without grading: the three routes of the teacher that delete,
\* and submits.
RemoveNext ==
    \/ TakeAnswer
    \/ \E h \in StudentHeaders, a \in 1..4 :
            Ready /\ SubmitAssignment(h, a, <<"a">>, NoFile, Oracle("answer", GoodAnswer), TRUE)
    \/ \E h \in RouteHeaders, c \in 1..3, u \in Students :
            Ready /\ RemoveStudentFromClass(h, c, u.id)
    \/ \E h \in RouteHeaders, c \in 1..3 : Ready /\ DeleteClass(h, c)
    \/ \E h \in RouteHeaders, a \in 1..4 : Ready /\ DeleteAssignment(h, a)

SpecRemove == DeleteInit /\ [][RemoveNext]_vars

\* create_class requests that overlap, each with its own transaction, and
\* delete_class in between, on a store that starts empty.
CreateRaceNext ==
    \/ \E t \in Slots, h \in TeacherHeaders, code \in ClassCodes : CreateDraw(t, h, code)
    \/ \E t \in Slots, code \in ClassCodes : CreateCheck(t, code)
    \/ \E t \in Slots : CreateInsert(t)
    \/ \E h \in TeacherHeaders, c \in 1..MaxCreates : DeleteClass(h, c)

SpecCreateRace == Init /\ [][CreateRaceNext]_vars

-----------------------------------------------------------------------------
(* Claims about parse_grading_result, checked under SpecParse *)

Lines(txt) == Split(txt, "\n")

HasLineWith(txt, token) == \E i \in 1..Len(Lines(txt)) : Contains(Lines(txt)[i], token)

\* the first line holding the token, by position
LineOf(txt, token) ==
    LET ls == Lines(txt)
        i == CHOOSE k \in 1..Len(ls) :
                /\ Contains(ls[k], token)
                /\ \A j \in 1..(k - 1) : ~Contains(ls[j], token)
    IN  ls[i]

HasColon(line) == Find(line, ":") # 0

\* everything behind the first colon of a line
Remainder(line) == SubSeq(line, Find(line, ":") + 1, Len(line))

\* what stands between the first colon and the next one (or the line's end)
FirstField(line) ==
    LET r == Remainder(line)
    IN  IF Find(r, ":") = 0 THEN r ELSE SubSeq(r, 1, Find(r, ":") - 1)

\* a decimal integer, possibly signed, possibly surrounded by blanks
IsIntegerText(s) ==
    LET t == Strip(s)
    IN  \E k \in 0..1 :
            /\ Len(t) > k
            /\ (k = 1 => t[1] \in {"-", "+"})
            /\ \A i \in (k + 1)..Len(t) : t[i] \in Digits

IntegerOf(s) == PyInt(s).val

Malformed(txt) ==
    \/ ~HasLineWith(txt, ScoreToken)
    \/ ~HasLineWith(txt, FeedbackToken)
    \/ ~HasColon(LineOf(txt, ScoreToken))
    \/ ~HasColon(LineOf(txt, FeedbackToken))
    \/ ~IsIntegerText(FirstField(LineOf(txt, ScoreToken)))
    \/ IntegerOf(FirstField(LineOf(txt, ScoreToken))) \notin 0..100

C7_FeedbackIsWholeRemainder ==
    ( /\ parsed # NotParsed
      /\ HasLineWith(text, ScoreToken)
      /\ HasColon(LineOf(text, ScoreToken))
      /\ IsIntegerText(Remainder(LineOf(text, ScoreToken)))
      /\ IntegerOf(Remainder(LineOf(text, ScoreToken))) \in 0..100
      /\ HasLineWith(text, FeedbackToken)
      /\ HasColon(LineOf(text, FeedbackToken)) )
    => parsed.value = << Some(IntegerOf(Remainder(LineOf(text, ScoreToken)))),
                         Strip(Remainder(LineOf(text, FeedbackToken))) >>

-----------------------------------------------------------------------------
(* Claims about the token service, checked under SpecAuth *)

ValidlySigned(tok) == tok.jwt /\ tok.sig = Sign(tok.payload, SecretKey)

\* the token names a user that is in the users table, with that id and role
ResolvesToUser(tok) ==
    /\ tok.payload.user # None
    /\ \E u \in users : u.id = tok.payload.user[1].id /\ u.role = tok.payload.user[1].role

\* the token names a user that is in the users table under the same id,
\* username and role
NamesExistingUser(tok) ==
    /\ tok.payload.user # None
    /\ tok.payload.user[1] \in users

AuthFailures == {"MissingToken", "TokenExpired", "TokenInvalid", "UserNotFound"}

\* C8: the operation behind token_required runs only for a Bearer token that
\* is validly signed, unexpired and resolves to an existing user; every other
\* request is answered by exactly one of MissingToken, TokenExpired,
\* TokenInvalid, UserNotFound, and the operation is not run.
C8_RejectedOnlyByTheFourFailures ==
    authResp.op = "protected" =>
        /\ authResp.ran <=>
              /\ authResp.header.kind = "bearer"
              /\ ValidlySigned(authResp.header.token)
              /\ ~ExpiredAt(authResp.header.token.payload.exp, authResp.at, jwtLib)
              /\ ResolvesToUser(authResp.header.token)
        /\ ~authResp.ran => authResp.error \in AuthFailures

\* the request of C10: a refresh with a correctly signed, expired token of a
\* user who still exists
RefreshOfExpired ==
    /\ authResp.op = "refresh"
    /\ authResp.header.kind = "bearer"
    /\ ValidlySigned(authResp.header.token)
    /\ NamesExistingUser(authResp.header.token)
    /\ ExpiredAt(authResp.header.token.payload.exp, authResp.at, jwtLib)

\* C10: refreshing a correctly signed but expired token of a user who still
\* exists under the same id, username and role succeeds, and the new token
\* expires strictly later than the old one; so for every refresh in a row.
C10_RefreshOfExpiredExtendsExpiry ==
    RefreshOfExpired =>
        /\ authResp.status = 200
        /\ authResp.token # None
        /\ ValidlySigned(authResp.token[1])
        /\ authResp.token[1].payload.user = authResp.header.token.payload.user
        /\ authResp.token[1].payload.exp > authResp.header.token.payload.exp

\* an expired token that a refresh on a later day handed out was refreshed again
C10_Witness ==
    /\ RefreshOfExpired
    /\ authResp.header.token.payload.iat >= 1
    /\ authResp.status = 200
    /\ authResp.token[1].payload.exp > authResp.header.token.payload.exp

-----------------------------------------------------------------------------
(* Claims about submissions and grades, checked under SpecGrades *)

\* the row as submit_assignment writes it: the five fields it sets
Written(r) ==
    [content |-> r.content, file_url |-> r.file_url, submitted_at |-> r.submitted_at,
     ai_score |-> r.ai_score, ai_feedback |-> r.ai_feedback]

\* the five fields of the answered submit
Submitted(v) ==
    [content |-> v.content, file_url |-> v.file_url, submitted_at |-> v.submitted_at,
     ai_score |-> v.ai_score, ai_feedback |-> v.ai_feedback]

SubmitAnswered == resp.op = "submit_assignment" /\ resp.status = 200

\* C1: whatever submits came before, no two rows share an (assignment,
\* student) pair; and after a submit that succeeded, the second one of a pair
\* included, the pair has exactly one row, whose content, file reference,
\* submission time, AI score and AI feedback are those of that submit.
C1_OneRowPerPairHoldingLastSubmit ==
    /\ \A r \in submissions, q \in submissions :
            r.assignment_id = q.assignment_id /\ r.student_id = q.student_id => r = q
    /\ SubmitAnswered =>
            \E r \in submissions :
                /\ SubmissionsOf(submissions, resp.detail.assignment_id, resp.user[1].id) = {r}
                /\ Written(r) = Submitted(resp.detail.values)

\* a second submit of a pair, a day after the first and with another text and
\* another oracle outcome, answered on a row the teacher had graded meanwhile
C1_Witness ==
    /\ SubmitAnswered
    /\ resp.detail.seen
    /\ resp.detail.values.submitted_at >= 1
    /\ resp.detail.values.content = <<"b">>
    /\ resp.detail.values.ai_score = None
    /\ \E r \in submissions :
            /\ r.assignment_id = resp.detail.assignment_id
            /\ r.student_id = resp.user[1].id
            /\ r.score # None
            /\ r.graded_at[1] < r.submitted_at
            /\ Written(r) = Submitted(resp.detail.values)
    /\ Cardinality(submissions) = 2

TrendAnswered == resp.op = "get_grade_trend" /\ resp.status = 200

\* the stored row an entry of the trend stands for
RowOf(entry) == CHOOSE r \in submissions : r.id = entry.id

\* C5: each entry of the grade trend reports the teacher's score when the row
\* has one, and the AI score only when it has none; never another value.
C5_TrendGradePrefersTeacherScore ==
    TrendAnswered =>
        \A c \in resp.detail : \A e \in c.submissions :
            /\ \E r \in submissions : r.id = e.id
            /\ RowOf(e).score # None => e.grade = RowOf(e).score
            /\ RowOf(e).score = None => e.grade = RowOf(e).ai_score /\ e.grade # None

\* a trend with a row that holds both scores, 90 of the teacher and 87 of the
\* oracle, reported as 90, and a row the oracle alone has scored
C5_Witness ==
    /\ TrendAnswered
    /\ \E c \in resp.detail :
            /\ \E e \in c.submissions :
                    /\ RowOf(e).score = Some(90)
                    /\ RowOf(e).ai_score = Some(87)
                    /\ e.grade = Some(90)
            /\ \E e \in c.submissions :
                    /\ RowOf(e).score = None
                    /\ e.grade = Some(87)

-----------------------------------------------------------------------------
(* Claims about the roles, checked under Spec *)

StudentOperations ==
    {"join_class", "get_student_classes", "get_student_assignments",
     "submit_assignment", "get_student_submissions", "get_grade_trend",
     "analyze_grade_trend"}

TeacherOperations ==
    {"create_class", "get_teacher_classes", "get_class_students",
     "remove_student_from_class", "delete_class", "create_assignment",
     "get_teacher_assignments", "delete_assignment", "get_submissions",
     "grade_submission"}

\* the answer is one to an authenticated caller of the other role
AnswersOtherRole(answer) ==
    /\ answer.user # None
    /\ \/ answer.op \in StudentOperations /\ answer.user[1].role = "teacher"
       \/ answer.op \in TeacherOperations /\ answer.user[1].role = "student"

\* C9: a student operation called by an authenticated teacher, and a teacher
\* operation called by an authenticated student, is answered Forbidden, which
\* is none of the authentication failures, and the step leaves the classes,
\* enrollments, assignments and submissions as they were.
C9_OtherRoleIsForbiddenAndChangesNothing ==
    [][AnswersOtherRole(resp') =>
            /\ resp'.status = 403
            /\ resp'.error = "Forbidden"
            /\ resp'.error \notin AuthFailures
            /\ tables' = tables]_vars

\* a student was refused the deletion of a class that exists and has a
\* submitted assignment
C9_Witness ==
    /\ resp.op = "delete_class"
    /\ resp.user # None
    /\ resp.user[1].role = "student"
    /\ resp.status = 403
    /\ classes # {}
    /\ submissions # {}

-----------------------------------------------------------------------------
(* Claims about the grading pipeline, checked under SpecSubmit *)

SubmitCalled == resp.op = "submit_assignment" /\ resp.user # None

\* what the request carried: the typed text comes back in the values, the
\* upload in the detail
CombinedOfRequest ==
    CombinedContent(resp.detail.values.content, FileContentOf(resp.detail.file))

\* the oracle did not give a usable answer: no client, a failed request, an
\* envelope without text, or a text that is malformed or out of range
OracleFails(oracle) ==
    \/ oracle.kind \in {"nokey", "http", "envelope"}
    \/ oracle.kind = "answer" /\ Malformed(oracle.text)

\* the row of the answered submit
RowsOfAnswer == SubmissionsOf(submissions, resp.detail.assignment_id, resp.user[1].id)

\* C3: a submit with non-empty combined content whose oracle fails in any of
\* its ways (no client, request error, bad envelope, unparsable or
\* out-of-range answer) is answered with success when the store takes the
\* write, and the row is stored with ai_score null and an ai_feedback text.
C3_OracleFailureStillStoresTheSubmission ==
    ( /\ SubmitCalled
      /\ resp.detail.dbOk
      /\ CombinedOfRequest # <<>>
      /\ OracleFails(resp.detail.oracle) )
    => /\ resp.status = 200
       /\ \E r \in submissions :
            /\ RowsOfAnswer = {r}
            /\ r.content = resp.detail.values.content
            /\ r.ai_score = None
            /\ r.ai_feedback # None
            /\ r.ai_feedback[1] # <<>>
            /\ resp.detail.values.ai_score = None
            /\ resp.detail.values.ai_feedback = r.ai_feedback

\* each way of failing was met: the submit of a text was stored with the
\* message of a failed request, when the row before held a score
C3_Witness ==
    /\ SubmitCalled
    /\ resp.status = 200
    /\ resp.detail.seen
    /\ resp.detail.oracle.kind = "http"
    /\ CombinedOfRequest # <<>>
    /\ \E r \in RowsOfAnswer : r.ai_score = None /\ r.ai_feedback = Some(MsgOracleError)

\* C4: when extract_file_content returns one of its failure texts for the
\* upload, the file adds nothing to the content: what is sent to the oracle,
\* if anything, is the typed text alone.
C4_FailureTextIsNeverSent ==
    ( /\ SubmitCalled
      /\ resp.detail.file.present
      /\ allowed_file(resp.detail.file)
      /\ extract_file_content(resp.detail.file) \in FailureSentinels )
    => \/ resp.detail.values.sent = None
       \/ resp.detail.values.sent = Some(Strip(resp.detail.values.content))

-----------------------------------------------------------------------------
(* Claims about overlapping submits, checked under SpecRace *)

Finished(t) == inflight[t].stage = "done"

\* the two requests ran side by side: one reached its SELECT while the other
\* stood between its SELECT and its write
Interleaved == \E t \in Slots : inflight[t].overlaps

LastCommitter == CHOOSE t \in Slots : inflight[t].order = Cardinality(Slots)

\* C2: when both interleaved submits of the pair have ended, both were
\* answered with success and the pair has exactly one row, holding the values
\* of the request that committed last.
C2_InterleavedSubmitsBothSucceedLastWins ==
    ( (\A t \in Slots : Finished(t)) /\ Interleaved )
    => /\ \A t \in Slots : inflight[t].status = 200
       /\ \E r \in submissions :
            /\ SubmissionsOf(submissions, 1, 1) = {r}
            /\ Written(r) = Submitted(inflight[LastCommitter].values)

-----------------------------------------------------------------------------
(* Claims about removed accounts, checked under SpecAuth *)

\* a token generate_token made for an account that is no longer in the
\* users table
TokenOfRemovedUser(tok) ==
    /\ ValidlySigned(tok)
    /\ tok.payload.user # None
    /\ tok.payload.user[1] \in AllUsers \ users

\* a protected operation or a refresh called with such a token
CalledByRemovedUser ==
    /\ authResp.op \in {"protected", "refresh"}
    /\ authResp.header.kind = "bearer"
    /\ TokenOfRemovedUser(authResp.header.token)

\* C11 as stated: with the token of a removed account every protected
\* operation and every refresh fails with UserNotFound, does not run and
\* issues no token, whether the token has expired or not.
C11_RemovedUserAlwaysUserNotFound ==
    CalledByRemovedUser =>
        /\ ~authResp.ran
        /\ authResp.token = None
        /\ authResp.error = "UserNotFound"

\* C11, amended: with the token of a removed account no protected operation
\* runs and no refresh issues a token; the refresh fails with UserNotFound
\* whatever the expiry, the protected operation with UserNotFound while the
\* token is unexpired and with TokenExpired once it has expired.
C11_RemovedUserIsNeverAccepted ==
    CalledByRemovedUser =>
        /\ ~authResp.ran
        /\ authResp.token = None
        /\ authResp.status = 401
        /\ authResp.error =
              IF /\ authResp.op = "protected"
                 /\ ExpiredAt(authResp.header.token.payload.exp, authResp.at, jwtLib)
              THEN "TokenExpired" ELSE "UserNotFound"

\* a refresh with the expired token of a removed account was refused as
\* UserNotFound
C11_Witness ==
    /\ CalledByRemovedUser
    /\ authResp.op = "refresh"
    /\ ExpiredAt(authResp.header.token.payload.exp, authResp.at, jwtLib)
    /\ authResp.error = "UserNotFound"
    /\ authResp.token = None

-----------------------------------------------------------------------------
(* Claims about the lifetime of a token, checked under SpecAuth *)

\* the token of the last request was handed out by generate_token
CarriesGenuineToken ==
    /\ authResp.header.kind = "bearer"
    /\ authResp.header.token \in GenuineTokens(authResp.at)

\* token_required validated a generate_token token of a user who exists
ValidatedGenuine ==
    /\ authResp.op = "protected"
    /\ CarriesGenuineToken
    /\ NamesExistingUser(authResp.header.token)

\* the login just answered handed out a token expiring a day after now
LoginTokenLastsADay ==
    (authResp.op = "login" /\ authResp.token # None) =>
        /\ authResp.token[1].payload.iat = authResp.at
        /\ authResp.token[1].payload.exp = authResp.at + TokenTTL
        /\ authResp.token[1].payload.user = authResp.user

-----------------------------------------------------------------------------
(* Claims about enrollment, checked under SpecEnroll and SpecJoinRace *)

EnrollmentCount(tbl, class_id) == Cardinality({e \in tbl : e.class_id = class_id})

EnrollmentsElsewhere(tbl, class_id) == {e \in tbl : e.class_id # class_id}

\* what the claim expects of a join by `student` with `code`, from the tables
\* before the request
JoinAsClaimed(student, code) ==
    LET named == {c \in classes : c.code = code}
    IN  IF named = {}
        THEN /\ resp'.status = 404
             /\ resp'.error = "NotFound"
             /\ student_classes' = student_classes
        ELSE LET class_id == (CHOOSE c \in named : TRUE).id
             IN  IF \E e \in student_classes :
                        e.student_id = student /\ e.class_id = class_id
                 THEN /\ resp'.status = 400
                      /\ resp'.error = "Duplicate"
                      /\ student_classes' = student_classes
                 ELSE /\ resp'.status = 200
                      /\ EnrollmentCount(student_classes', class_id)
                            = EnrollmentCount(student_classes, class_id) + 1
                      /\ EnrollmentsElsewhere(student_classes', class_id)
                            = EnrollmentsElsewhere(student_classes, class_id)

C14_OneEnrollmentPerStudentAndClass ==
    \A e \in student_classes, f \in student_classes :
        (e.student_id = f.student_id /\ e.class_id = f.class_id) => e = f

\* two joins of one student to one class overlapped: both saw no enrollment,
\* the first inserted its row and the second was refused by the table
C14_Witness ==
    /\ resp.op = "join_class"
    /\ resp.status = 500
    /\ resp.error = "IntegrityError"
    /\ resp.detail.overlaps
    /\ \E e \in student_classes :
            e.student_id = resp.user[1].id /\ e.class_id = resp.detail.class_id

-----------------------------------------------------------------------------
(* Claims about deletions, checked under SpecDelete *)

\* the ids of the assignments of a class
AssignmentsOfClass(class_id) == {a.id : a \in {a \in assignments : a.class_id = Some(class_id)}}

\* C15: a delete_class that succeeds leaves no assignment of the class and no
\* submission to one of them, removes that class only, and leaves every
\* other assignment and every submission to another assignment as it was.
C15_DeleteClassCascadesAndNoFurther ==
    [][\A h \in RouteHeaders, c \in 1..2 :
            (DeleteClass(h, c) /\ resp'.status = 200) =>
                /\ \A a \in assignments' : a.class_id # Some(c)
                /\ \A r \in submissions' : r.assignment_id \notin AssignmentsOfClass(c)
                /\ classes' = {k \in classes : k.id # c}
                /\ assignments' = {a \in assignments : a.class_id # Some(c)}
                /\ submissions' = {r \in submissions :
                                        r.assignment_id \notin AssignmentsOfClass(c)}]_vars

\* the first class was deleted after both classes had received a submission:
\* its two assignments and its submission are gone, the other class keeps its
\* assignment and its submission
C15_Witness ==
    /\ resp.op = "delete_class"
    /\ resp.status = 200
    /\ {k.id : k \in classes} = {2}
    /\ {a.id : a \in assignments} = {3}
    /\ nextId.submissions = 3
    /\ Cardinality(submissions) = 1
    /\ \A r \in submissions : r.assignment_id = 3

\* C16: a delete_assignment that succeeds for assignment A removes A and the
\* submissions to A, and leaves every other assignment, those of the same
\* class included, and every submission to another assignment as it was.
C16_DeleteAssignmentTakesOnlyItsSubmissions ==
    [][\A h \in RouteHeaders, a \in 1..3 :
            (DeleteAssignment(h, a) /\ resp'.status = 200) =>
                /\ \A b \in assignments' : b.id # a
                /\ \A r \in submissions' : r.assignment_id # a
                /\ assignments' = {b \in assignments : b.id # a}
                /\ submissions' = {r \in submissions : r.assignment_id # a}
                /\ classes' = classes
                /\ student_classes' = student_classes]_vars

\* the first assignment was deleted after it and its sibling had received a
\* submission: the sibling and the submission to it are still there
C16_Witness ==
    /\ resp.op = "delete_assignment"
    /\ resp.status = 200
    /\ {a.id : a \in assignments} = {2, 3}
    /\ nextId.submissions = 3
    /\ Cardinality(submissions) = 1
    /\ \A r \in submissions : r.assignment_id = 2

-----------------------------------------------------------------------------
(* Claims about the trend analysis, checked under SpecTrend *)

\* the handler called TongyiQianwenAPI.analyze_grade_trend
AnalysisCalled == resp.op = "analyze_grade_trend" /\ resp.detail # <<>>

\* C17: analyze_grade_trend never raises; with fewer than 2 records it returns
\* (insufficient-data message, false) and sends the oracle nothing; with 2 or
\* more it returns (text, true) when the oracle's answer carries output.text,
\* and (error message, false) when the request fails or the answer does not.
C17_AnalysisReturnsAndNeverRaises ==
    AnalysisCalled =>
        LET call == resp.detail.call
            oracle == resp.detail.oracle
        IN  /\ ~call.outcome.raised
            /\ Len(resp.detail.grade_data) < 2 =>
                  /\ call.outcome.value = <<MsgTooFewRecords, FALSE>>
                  /\ ~call.contacted
            /\ Len(resp.detail.grade_data) >= 2 =>
                  IF oracle.kind = "answer"
                  THEN call.outcome.value = <<Strip(oracle.text), TRUE>>
                  ELSE /\ call.outcome.value[2] = FALSE
                       /\ call.outcome.value[1] \in {MsgNoAnalysis, MsgAnalysisError}

-----------------------------------------------------------------------------
(* Claims about what is graded and stored, checked under SpecSubmit *)

\* the typed text of the answered submit, trimmed
TypedText == Strip(resp.detail.values.content)

\* the file text the handler kept from the upload of the answered submit,
\* trimmed
KeptFileText == Strip(FileContentOf(resp.detail.file))

\* C18: a submit with no typed text but blanks and no file text is not sent
\* to the oracle, and its row is stored with ai_score null and the fixed
\* no-content message as ai_feedback; a submit with both has the typed text,
\* the separator line and the file text, in this order, sent to the oracle.
C18_NoContentSkipsGradingBothAreJoined ==
    SubmitCalled =>
        /\ (TypedText = <<>> /\ KeptFileText = <<>>) =>
              /\ resp.detail.values.sent = None
              /\ resp.detail.values.ai_score = None
              /\ resp.detail.values.ai_feedback = Some(MsgNoContent)
              /\ resp.status = 200 =>
                    \A r \in RowsOfAnswer :
                        r.ai_score = None /\ r.ai_feedback = Some(MsgNoContent)
        /\ (TypedText # <<>> /\ KeptFileText # <<>> /\ resp.detail.oracle.kind # "nokey") =>
              resp.detail.values.sent = Some(TypedText \o FileSeparator \o KeptFileText)

\* a submit of blanks with a readable but empty PDF replaced a row: nothing
\* was sent, and the row holds the no-content message and no score
C18_Witness ==
    /\ SubmitCalled
    /\ resp.status = 200
    /\ resp.detail.seen
    /\ resp.detail.values.content = <<" ">>
    /\ resp.detail.file.present
    /\ resp.detail.file.ext = "pdf"
    /\ resp.detail.file.body = "text"
    /\ resp.detail.values.sent = None
    /\ \E r \in RowsOfAnswer : r.ai_score = None /\ r.ai_feedback = Some(MsgNoContent)

\* the answer is to a submit whose UPDATE or INSERT the database refused
WriteFailed(answer) ==
    /\ answer.op = "submit_assignment"
    /\ answer.user # None
    /\ answer.status # 403
    /\ ~answer.detail.dbOk

-----------------------------------------------------------------------------
(* Claims about the teacher's fields, checked under SpecGrades *)

\* what the teacher enters on a row
TeacherFields(r) == [score |-> r.score, feedback |-> r.feedback, graded_at |-> r.graded_at]

Ungraded == [score |-> None, feedback |-> None, graded_at |-> None]

\* the row of the same id before the step, if there was one
RowBefore(r) == {q \in submissions : q.id = r.id}

\* C20: in every step but a grade_submission that succeeded, a submit first
\* of all, each row has the teacher's score, feedback and graded-at time it
\* had before the step, and a row the step created has all three null; so a
\* row holds teacher fields only once grade_submission was applied to it.
C20_OnlyGradingSetsTeacherFields ==
    [][(resp'.op # "grade_submission" \/ resp'.status # 200) =>
            \A r \in submissions' :
                IF RowBefore(r) = {}
                THEN TeacherFields(r) = Ungraded
                ELSE \A q \in RowBefore(r) : TeacherFields(r) = TeacherFields(q)]_vars

\* a resubmission, a day after the teacher graded the row, was stored with
\* the teacher's score, feedback and grading time still on the row, next to a
\* row of the other student that nobody has graded
C20_Witness ==
    /\ SubmitAnswered
    /\ resp.detail.seen
    /\ \E r \in submissions :
            /\ r.assignment_id = resp.detail.assignment_id
            /\ r.student_id = resp.user[1].id
            /\ TeacherFields(r) = [score |-> Some(90), feedback |-> Some(<<"fine">>),
                                   graded_at |-> Some(0)]
            /\ r.submitted_at = 1
    /\ \E r \in submissions :
            /\ r.student_id # resp.user[1].id
            /\ TeacherFields(r) = Ungraded

-----------------------------------------------------------------------------
(* Claims about grade_submission, checked under SpecTeach *)

\* the teachers who own the assignment a submission belongs to
OwnersOfSubmission(submission_id) ==
    {a.teacher_id : a \in {a \in assignments :
        \E r \in submissions : r.id = submission_id /\ r.assignment_id = a.id}}

SubmissionIds == {r.id : r \in submissions}

\* a request to grade_submission that passed the token and role tests
GradeCalled(h, submission_id, score) ==
    /\ Ready
    /\ Gate("grade_submission", h, "teacher") = None
    /\ GradeSubmission(h, submission_id, score, <<"fine">>)

\* C21: grade_submission changes the teacher score and feedback of a
\* submission only when the calling teacher owns the assignment the submission
\* belongs to; a call by any other teacher is answered 403 and leaves the
\* submission as it was.
C21_OnlyTheOwnerGrades ==
    [][\A h \in RouteHeaders, r \in 1..(MaxSubmissions + 1), sc \in TeacherScores :
          (GradeCalled(h, r, sc) /\ r \in SubmissionIds
                /\ Caller(h).id \notin OwnersOfSubmission(r))
            => (resp'.status = 403 /\ submissions' = submissions)]_vars

\* C22: grade_submission called with the id of a submission that does not
\* exist is answered 404, not with a success, and changes no stored row.
C22_GradingAbsentSubmissionIsNotFound ==
    [][\A h \in RouteHeaders, r \in 1..(MaxSubmissions + 1), sc \in TeacherScores :
          (GradeCalled(h, r, sc) /\ r \notin SubmissionIds)
            => (resp'.status = 404 /\ UNCHANGED tables)]_vars

-----------------------------------------------------------------------------
(* Claim about create_class, checked under SpecCreateRace *)

\* C23: after any sequence or interleaving of create_class requests no two
\* classes share a join code: a drawn code that a class already has is drawn
\* again before the INSERT, and of two overlapping creations that drew the
\* same free code only one is stored with it.
C23_NoTwoClassesShareACode ==
    \A c1 \in classes, c2 \in classes : c1.code = c2.code => c1.id = c2.id

\* a creation that had drawn a taken code and drawn again, passed the loop
\* while another creation was under way, and was refused at its INSERT
\* because the other one had stored the code in between
C23_Witness ==
    /\ resp.op = "create_class"
    /\ resp.status = 500
    /\ resp.detail.rerolled
    /\ resp.detail.overlaps
    /\ ClassesByCode(resp.detail.code) # {}
    /\ Cardinality(classes) = 2

-----------------------------------------------------------------------------
(* Claims about the teacher's deleting routes, checked under SpecRemove *)

\* the class exists and is the teacher's
TeachesClass(teacher, class_id) ==
    \E c \in classes : c.id = class_id /\ c.teacher_id = teacher

\* the assignment exists and is the teacher's
SetAssignment(teacher, assignment_id) ==
    \E a \in assignments : a.id = assignment_id /\ a.teacher_id = teacher

\* the request was answered 404 and no table has changed
NotFoundNothingChanged == resp'.status = 404 /\ UNCHANGED tables

\* C24: delete_class, remove_student_from_class and delete_assignment called
\* by a teacher on a class or assignment that is absent or owned by another
\* teacher return not-found and leave every class, enrollment, assignment and
\* submission unchanged.
C24_NotOwnedIsNotFoundAndChangesNothing ==
    [][\A h \in RouteHeaders :
          /\ \A c \in 1..3 :
                (resp'.op = "delete_class" /\ Ready
                       /\ Gate("delete_class", h, "teacher") = None
                       /\ DeleteClass(h, c) /\ ~TeachesClass(Caller(h).id, c))
                  => NotFoundNothingChanged
          /\ \A c \in 1..3, u \in Students :
                (resp'.op = "remove_student_from_class" /\ Ready
                       /\ Gate("remove_student_from_class", h, "teacher") = None
                       /\ RemoveStudentFromClass(h, c, u.id)
                       /\ ~TeachesClass(Caller(h).id, c))
                  => NotFoundNothingChanged
          /\ \A a \in 1..4 :
                (resp'.op = "delete_assignment" /\ Ready
                       /\ Gate("delete_assignment", h, "teacher") = None
                       /\ DeleteAssignment(h, a) /\ ~SetAssignment(Caller(h).id, a))
                  => NotFoundNothingChanged]_vars

\* tea2 was answered 404 by one of the three routes while tea1's class, its
\* assignments, its enrollments and a submission to it are all in place
C24_Witness ==
    /\ resp.op \in {"delete_class", "remove_student_from_class", "delete_assignment"}
    /\ resp.status = 404
    /\ resp.user # None /\ resp.user[1].id = 4
    /\ TeachesClass(3, 1)
    /\ \A a \in {1, 2} : SetAssignment(3, a)
    /\ \A u \in Students : Enrollment(u.id, 1) # {}
    /\ SubmissionsInClass(1) # {}

-----------------------------------------------------------------------------
(* Claim about create_assignment, checked under Spec *)

\* the assignment names a class that exists and belongs to the assignment's
\* teacher
InClassOfItsTeacher(a) ==
    /\ a.class_id # None
    /\ \E c \in classes : c.id = a.class_id[1] /\ c.teacher_id = a.teacher_id

\* C25: in every reachable state every stored assignment is scoped to exactly
\* one existing class, and that class is owned by the teacher who owns the
\* assignment; create_assignment never stores an assignment with no class or
\* with a class of another teacher.
C25_EveryAssignmentInAClassOfItsTeacher ==
    \A a \in assignments : InClassOfItsTeacher(a)

-----------------------------------------------------------------------------
(* Claim about who may submit, checked under SpecTeach *)

\* the student is enrolled in the class of the assignment
EnrolledFor(student, assignment_id) ==
    \E a \in assignments :
        /\ a.id = assignment_id
        /\ a.class_id # None
        /\ Enrollment(student, a.class_id[1]) # {}

\* C26: every submission row refers to an existing assignment and was written
\* by a student who was enrolled in that assignment's class at the time of the
\* submit: submit_assignment for an absent assignment, or by a student not
\* enrolled in the assignment's class, creates no row.
C26_OnlyEnrolledStudentsSubmit ==
    [][/\ \A r \in submissions' : \E a \in assignments' : a.id = r.assignment_id
       /\ \A h \in StudentHeaders, a \in 1..4 :
            (resp'.op = "submit_assignment" /\ Ready
                /\ SubmitAssignment(h, a, <<"a">>, NoFile, Oracle("answer", GoodAnswer), TRUE)
                /\ ~EnrolledFor(Caller(h).id, a))
              => {r.id : r \in submissions'} \subseteq SubmissionIds]_vars

-----------------------------------------------------------------------------
(* Claim about remove_student_from_class, checked under SpecRemove *)

\* the row is a submission of the student to an assignment of the class
SubmittedInClass(r, student, class_id) ==
    /\ r.student_id = student
    /\ \E a \in assignments : a.id = r.assignment_id /\ a.class_id = Some(class_id)

\* the row is the enrollment of the student in the class
EnrolledIn(e, student, class_id) == e.student_id = student /\ e.class_id = class_id

\* C27: after remove_student_from_class succeeds for student S and class C,
\* S has no enrollment in C and no submission to any assignment of C, while
\* S's enrollments and submissions in other classes and every other student's
\* enrollments and submissions are unchanged.
C27_RemovalTakesOnlyTheStudentsRowsInTheClass ==
    [][\A h \in RouteHeaders, c \in 1..3, u \in Students :
          (resp'.op = "remove_student_from_class" /\ Ready
                /\ RemoveStudentFromClass(h, c, u.id) /\ resp'.status = 200)
            => /\ \A e \in student_classes' : ~EnrolledIn(e, u.id, c)
               /\ \A r \in submissions' : ~SubmittedInClass(r, u.id, c)
               /\ {e \in student_classes : ~EnrolledIn(e, u.id, c)} \subseteq student_classes'
               /\ student_classes' \subseteq student_classes
               /\ {r \in submissions : ~SubmittedInClass(r, u.id, c)} \subseteq submissions'
               /\ submissions' \subseteq submissions
               /\ UNCHANGED <<classes, assignments>>]_vars

\* tea1 has removed student 1 from class 1: the student's submission there is
\* gone (two were made, no assignment was deleted, one is left), the one in
\* class 2 and both enrollments of student 2 are in place
C27_Witness ==
    /\ resp.op = "remove_student_from_class"
    /\ resp.status = 200
    /\ resp.user # None /\ resp.user[1].id = 3
    /\ Enrollment(1, 1) = {}
    /\ Enrollment(1, 2) # {}
    /\ \A c \in {1, 2} : Enrollment(2, c) # {}
    /\ {a.id : a \in assignments} = {1, 2, 3}
    /\ nextId.submissions = 3
    /\ \E r \in submissions : submissions = {r} /\ r.student_id = 1 /\ r.assignment_id = 3

=============================================================================
